---------------------------- MODULE Spec2Model ----------------------------
(***************************************************************************)
(* Verification model of the lassie / qseek search engine.                 *)
(*                                                                         *)
(*   SpecOctree   - lassie/octree.py: Node and Octree objects on a heap    *)
(*                  (object identity is the heap index).                   *)
(*   SpecPrefetch - lassie/waveforms/squirrel.py: the prefetch worker      *)
(*                  task and the consuming generator iter_batches, one     *)
(*                  step per await.                                        *)
(*   SpecSearch   - src/qseek/search.py: the streaming controller          *)
(*                  Search.start with its run directory, one step per      *)
(*                  await, stopped and resumed with load_rundir.           *)
(*   SpecFrame    - SearchTraces.search of src/qseek/search.py and of      *)
(*                  lassie/search/base.py on the octree heap: the octree   *)
(*                  a frame works on, its refinements and its detections.  *)
(*   SpecSuited   - lassie/tracers/cake.py: TraveltimeTree.is_suited on    *)
(*                  stored trees and requests.                             *)
(*   SpecTracers  - lassie/tracers/cake.py: CakeTracer.prepare, the LRU    *)
(*                  cache of a tree and get_arrivals.                      *)
(*   SpecStations - src/qseek/models/station.py and                        *)
(*                  lassie/tracers/fast_marching: the station list, its    *)
(*                  blacklist and the travel-time volumes.                 *)
(*   SpecConfig   - lassie/images and lassie/tracers: the phases of a      *)
(*                  configuration from its loading to the search.          *)
(*   SpecExtract  - src/qseek/search.py: the tasks of new_detections       *)
(*                  under the semaphore of the extractors, with the        *)
(*                  fairness of the event loop.                            *)
(*   SpecDisk     - Search.init_rundir: the run directory and its backups. *)
(*   SpecUncertainty - src/qseek/models/detection_uncertainty.py on the    *)
(*                  octree heap after map_semblance.                       *)
(*   SpecSamples  - SearchTraces of src/qseek/search.py: the sample        *)
(*                  counts of a window with its padding, in milliseconds.  *)
(*   SpecSem      - SearchTraces.search and calculate_semblance: the       *)
(*                  semblance cache through the refinements of a frame.    *)
(*   SpecRefine   - SearchTraces.search: the leaves a frame splits around  *)
(*                  its peaks, until no source node can be split.          *)
(*   SpecWts      - calculate_semblance: the weights and shifts of the     *)
(*                  stations of a node, with missing travel times.         *)
(*   SpecExporter - Search.new_detections: the export at every hundredth   *)
(*                  detection.                                             *)
(*   SpecLut      - src/qseek/station_weights.py: get_weights on the LRU   *)
(*                  cache of station distances, one step per call.         *)
(*   SpecPeakCache - src/qseek/magnitudes/moment_magnitude_store.py:       *)
(*                  clean_cache on the files of the cache directory.       *)
(*   SpecStream   - Search.start over iter_batches and the prefetch        *)
(*                  worker, with the fairness of the event loop.           *)
(*                                                                         *)
(* Times are integers on the grid of the sampling interval: every time     *)
(* the controller handles is a datetime or a timedelta of the              *)
(* configuration, or a sum of those.                                       *)
(*                                                                         *)
(* Lengths are integers in a unit chosen so that every halving the code    *)
(* performs on the configurations below is exact (the code uses floats,    *)
(* for which halving is exact as well).                                    *)
(***************************************************************************)
EXTENDS Integers, Sequences, FiniteSets, TLC

VARIABLES
    \* ---- octree heap (lassie/octree.py)
    cfg,            \* the Octree fields size_initial, size_limit
    nodes,          \* heap of Node objects, index = object identity
    trees,          \* heap of Octree objects, index = object identity
    lastOp,         \* observation: the last octree operation and its outcome
    firstChildren,  \* observation: the children the first split of a node made
    nOps,           \* number of octree operations performed
    \* ---- prefetcher (lassie/waveforms/squirrel.py)
    iterator,       \* number of batches the chopper iterator has handed out
    queue,          \* SquirrelPrefetcher.queue, head first
    worker,         \* position of the prefetch_worker task
    held,           \* the batch the worker holds between its awaits
    fetched_batches,\* SquirrelPrefetcher._fetched_batches
    consumer,       \* position of the iter_batches generator
    delivered,      \* observation: i_batch of every batch yielded, in order
    skipped,        \* stats.empty_batches and stats.short_batches
    unfinished,     \* the queue's count of items not yet task_done()
    \* ---- streaming controller (src/qseek/search.py)
    conf,           \* the Search fields and the travel times of its tracers
    spc,            \* position of the coroutine Search.start
    run,            \* number of the process working on the run directory
    rundir,         \* does the run directory exist
    progress,       \* Search._progress.time_progress
    progress_file,  \* the time in progress.json
    shift_range,    \* Search._shift_range
    window_padding, \* Search._window_padding
    start_time,     \* the start_time iter_batches chops from
    i_batch,        \* index of the next window of the chopper
    batch,          \* the batch the loop body works on
    detections,     \* the detections SearchTraces.search returned for it
    i_detection,    \* position of new_detections in detections
    store,          \* Search._detections, the detections of the run directory
    emitted,        \* observation: detections this process emitted
    n_traces,       \* semblance traces added to the store
    exports,        \* calls of export_detections
    completed,      \* observation: windows whose end became the progress
    searched,       \* observation: windows searched by this process
    stopped_at,     \* observation: where this process was stopped
    resumed_from,   \* observation: the progress load_rundir found
    \* ---- frame engine (SearchTraces.search)
    frame           \* which Search variant runs, the octree of the frame,
                    \* the position of search and the frames finished

VARIABLE
    \* ---- 1-D tracer (lassie/tracers/cake.py)
    cake            \* the cache directory, the trees of the tracer, the LRU
                    \* cache of one tree and the last answer

VARIABLE
    \* ---- stations and 3-D tracer (station.py, fast_marching.py)
    fm              \* the stations and their blacklist, the cache directory
                    \* of volumes, the volumes of the tracer and the last
                    \* answer

VARIABLE
    \* ---- configuration (lassie/images/__init__.py, lassie/tracers/__init__.py)
    config          \* the image functions and ray tracers of a configuration
                    \* file and how far the program has come with them

VARIABLE
    \* ---- magnitudes and features (src/qseek/search.py)
    extract         \* the tasks of new_detections and the semaphore of the
                    \* extractors

VARIABLE
    \* ---- run directories (search.py, init_rundir)
    disk            \* the run directory, its backups and the last call of
                    \* init_rundir

VARIABLE
    \* ---- sample counts (src/qseek/search.py, SearchTraces)
    samples         \* a window, a padding and a sampling rate, and the
                    \* sample counts made of them

VARIABLE
    \* ---- semblance of a frame (src/qseek/search.py, SearchTraces.search)
    sem             \* the call of search that runs: its octree, its cache
                    \* and its semblance; the frames searched

VARIABLE
    \* ---- refinement of a frame (src/qseek/search.py, SearchTraces.search)
    refine          \* the peaks of the last call of search and the nodes it split

VARIABLE
    \* ---- station weights of an image (src/qseek/search.py, calculate_semblance)
    wts             \* the travel times of an image and the shifts and weights made of them

VARIABLE
    \* ---- exports of new_detections (src/qseek/search.py)
    exporter        \* the number of stored detections and what the last new_detections did

VARIABLE
    \* ---- StationWeights (src/qseek/station_weights.py)
    lut             \* the node LUT, an LRU cache, and one call of get_weights

VARIABLE
    \* ---- PeakAmplitudeStoreCache (src/qseek/magnitudes/moment_magnitude_store.py)
    peakcache       \* the files of the cache directory and one clean_cache

octreeVars == <<cfg, nodes, trees, lastOp, firstChildren, nOps>>

prefetchVars ==
    <<iterator, queue, worker, held, fetched_batches, consumer, delivered,
      skipped, unfinished>>

searchVars ==
    <<conf, spc, run, rundir, progress, progress_file, shift_range,
      window_padding, start_time, i_batch, batch, detections, i_detection,
      store,
      emitted, n_traces, exports, completed, searched, stopped_at,
      resumed_from>>

frameVars == <<frame>>

cakeVars == <<cake>>

fmVars == <<fm>>

configVars == <<config>>

extractVars == <<extract>>

diskVars == <<disk>>

samplesVars == <<samples>>

semVars == <<sem>>

refineVars == <<refine>>

wtsVars == <<wts>>

exporterVars == <<exporter>>

lutVars == <<lut>>

peakcacheVars == <<peakcache>>

\* The variables of the components added after the controller.
laterVars ==
    <<frameVars, cakeVars, fmVars, configVars, extractVars, diskVars,
      samplesVars, semVars, refineVars, wtsVars, exporterVars, lutVars,
      peakcacheVars>>

vars == <<octreeVars, prefetchVars, searchVars, laterVars>>

\* What the actions of one component leave alone.
notFrame ==
    <<prefetchVars, searchVars, cakeVars, fmVars, configVars, extractVars,
      diskVars, samplesVars, semVars, refineVars, wtsVars, exporterVars,
      lutVars, peakcacheVars>>

notCake ==
    <<octreeVars, prefetchVars, searchVars, frameVars, fmVars, configVars,
      extractVars, diskVars, samplesVars, semVars, refineVars, wtsVars,
      exporterVars, lutVars, peakcacheVars>>

notFm ==
    <<octreeVars, prefetchVars, searchVars, frameVars, cakeVars,
      configVars, extractVars, diskVars, samplesVars, semVars, refineVars,
      wtsVars, exporterVars, lutVars, peakcacheVars>>

notConfig ==
    <<octreeVars, prefetchVars, searchVars, frameVars, cakeVars, fmVars,
      extractVars, diskVars, samplesVars, semVars, refineVars, wtsVars,
      exporterVars, lutVars, peakcacheVars>>

notExtract ==
    <<octreeVars, prefetchVars, searchVars, frameVars, cakeVars, fmVars,
      configVars, diskVars, samplesVars, semVars, refineVars, wtsVars,
      exporterVars, lutVars, peakcacheVars>>

notDisk ==
    <<octreeVars, prefetchVars, searchVars, frameVars, cakeVars, fmVars,
      configVars, extractVars, samplesVars, semVars, refineVars, wtsVars,
      exporterVars, lutVars, peakcacheVars>>

notSamples ==
    <<octreeVars, prefetchVars, searchVars, frameVars, cakeVars, fmVars,
      configVars, extractVars, diskVars, semVars, refineVars, wtsVars,
      exporterVars, lutVars, peakcacheVars>>

notSem ==
    <<octreeVars, prefetchVars, searchVars, frameVars, cakeVars, fmVars,
      configVars, extractVars, diskVars, samplesVars, refineVars, wtsVars,
      exporterVars, lutVars, peakcacheVars>>

notRefine ==
    <<octreeVars, prefetchVars, searchVars, frameVars, cakeVars, fmVars,
      configVars, extractVars, diskVars, samplesVars, semVars, wtsVars,
      exporterVars, lutVars, peakcacheVars>>

notWts ==
    <<octreeVars, prefetchVars, searchVars, frameVars, cakeVars, fmVars,
      configVars, extractVars, diskVars, samplesVars, semVars, refineVars,
      exporterVars, lutVars, peakcacheVars>>

notExporter ==
    <<octreeVars, prefetchVars, searchVars, frameVars, cakeVars, fmVars,
      configVars, extractVars, diskVars, samplesVars, semVars, refineVars,
      wtsVars, lutVars, peakcacheVars>>

notLut ==
    <<octreeVars, prefetchVars, searchVars, frameVars, cakeVars, fmVars,
      configVars, extractVars, diskVars, samplesVars, semVars, refineVars,
      wtsVars, exporterVars, peakcacheVars>>

notPeakCache ==
    <<octreeVars, prefetchVars, searchVars, frameVars, cakeVars, fmVars,
      configVars, extractVars, diskVars, samplesVars, semVars, refineVars,
      wtsVars, exporterVars, lutVars>>

\* The refinement of a frame works on the octree heap.
notOctreeNorRefine ==
    <<prefetchVars, searchVars, frameVars, cakeVars, fmVars, configVars,
      extractVars, diskVars, samplesVars, semVars, wtsVars, exporterVars,
      lutVars, peakcacheVars>>

(***************************************************************************)
(* Bounds of the model.                                                    *)
(***************************************************************************)
MaxNodes == 30      \* Node objects ever allocated
MaxOps == 4         \* octree operations in one behaviour
MaxTrees == 2       \* Octree objects ever allocated
MaxTargets == 2     \* nodes (in pre-order) an operation may be applied to
MaxBatches == 5     \* batches the chopper iterator produces
MaxTime == 10       \* end of the time span that has waveforms
MaxRuns == 2        \* processes that work on the run directory in turn
MaxFrames == 2      \* windows one Search searches
LRU_CACHE == 2      \* entries of the LRU cache of a travel-time tree
MaxPrepares == 2    \* calls of prepare on the stations of one search
MaxDetections == 9  \* detections of the largest batch
MaxSearches == 3    \* searches that call init_rundir on one path
MaxProgress == 2    \* progress files written into one run directory
MaxDepth == 2       \* splits between a root node and a smallest node
MaxLevel == 2       \* refinements of the octree within one frame

(***************************************************************************)
(* Octree configuration.  Bounds of the volume and the configured sizes.   *)
(***************************************************************************)
east_bounds == <<0, 48>>
north_bounds == <<0, 24>>
depth_bounds == <<0, 24>>

\* (size_initial, size_limit) pairs a configuration may hold: both are
\* PositiveFloat fields and nothing relates them (the validator is commented
\* out in the source).
OctreeConfigs ==
    { [size_initial |-> 24, size_limit |-> 12],
      [size_initial |-> 24, size_limit |-> 6],
      [size_initial |-> 24, size_limit |-> 16],
      [size_initial |-> 24, size_limit |-> 32] }

\* Semblance vectors handed to map_semblance: length n, entries 1 or 2.
SemblanceVector(n, off) == [i \in 1..n |-> ((i + off) % 2) + 1]

NoCache == -1       \* cached_property n_nodes not computed

(***************************************************************************)
(* Pure helpers                                                            *)
(***************************************************************************)
Range(s) == { s[i] : i \in DOMAIN s }

Min(a, b) == IF a < b THEN a ELSE b

\* Octree.extent
extent ==
    << east_bounds[2] - east_bounds[1],
       north_bounds[2] - north_bounds[1],
       depth_bounds[2] - depth_bounds[1] >>

\* Octree._get_root_nodes: the centres, east outermost, depth innermost.
RootCoordinates(size) ==
    LET ne == extent[1] \div size
        nn == extent[2] \div size
        nd == extent[3] \div size
    IN  [ i \in 1..(ne * nn * nd) |->
            LET k == i - 1
                ie == k \div (nn * nd)
                in == (k \div nd) % nn
                id == k % nd
            IN  << ie * size + size \div 2 + east_bounds[1],
                   in * size + size \div 2 + north_bounds[1],
                   id * size + size \div 2 + depth_bounds[1] >> ]

\* Node.construct(east, north, depth, size, tree): semblance 0, no children.
NewNode(c, size, tree) ==
    [ east |-> c[1], north |-> c[2], depth |-> c[3], size |-> size,
      semblance |-> 0, tree |-> tree, children |-> <<>>,
      children_cached |-> <<>> ]

\* The Node objects _get_root_nodes allocates on heap h for tree t.
RootNodes(size, t) ==
    LET cs == RootCoordinates(size)
    IN  [ i \in 1..Len(cs) |-> NewNode(cs[i], size, t) ]

\* Child centres of Node.split: for east in (-1,1) for north in (-1,1)
\* for depth in (-1,1); centre = parent + sign * half_size / 2.
ChildSigns ==
    << <<-1,-1,-1>>, <<-1,-1,1>>, <<-1,1,-1>>, <<-1,1,1>>,
       <<1,-1,-1>>,  <<1,-1,1>>,  <<1,1,-1>>,  <<1,1,1>> >>

\* Wrong child centres: half the size away from the parent's centre.
ChildNodesHalfAway(nd) ==
    LET half_size == nd.size \div 2
    IN  [ i \in 1..8 |->
            NewNode( << nd.east  + ChildSigns[i][1] * half_size,
                        nd.north + ChildSigns[i][2] * half_size,
                        nd.depth + ChildSigns[i][3] * half_size >>,
                     half_size, nd.tree ) ]

ChildNodes(nd) ==
    LET half_size == nd.size \div 2
    IN  [ i \in 1..8 |->
            NewNode( << nd.east  + ChildSigns[i][1] * (half_size \div 2),
                        nd.north + ChildSigns[i][2] * (half_size \div 2),
                        nd.depth + ChildSigns[i][3] * (half_size \div 2) >>,
                     half_size, nd.tree ) ]

\* Node.__iter__ on heap h: the leaves below n, children in stored order.
\* SeqLeaves(h, s, i) are the leaves below the nodes s[i], s[i+1], ...
RECURSIVE NodeLeaves(_, _), SeqLeaves(_, _, _)
NodeLeaves(h, n) ==
    IF h[n].children # <<>> THEN SeqLeaves(h, h[n].children, 1) ELSE <<n>>

SeqLeaves(h, s, i) ==
    IF i > Len(s) THEN <<>> ELSE NodeLeaves(h, s[i]) \o SeqLeaves(h, s, i + 1)

\* A wrong iteration: the leaves of the last root node first.
RECURSIVE SeqLeavesBackwards(_, _, _)
SeqLeavesBackwards(h, s, i) ==
    IF i < 1 THEN <<>> ELSE NodeLeaves(h, s[i]) \o SeqLeavesBackwards(h, s, i - 1)

TreeLeavesBackwards(h, roots) == SeqLeavesBackwards(h, roots, Len(roots))

\* Octree.__iter__
TreeLeaves(h, roots) == SeqLeaves(h, roots, 1)

Leaves(t) == TreeLeaves(nodes, trees[t].root_nodes)

\* Octree.__getitem__: for i, node in enumerate(self): if i == idx: return
\* node; raise IndexError.  EnumerateFrom scans lv from the count i on.
RECURSIVE EnumerateFrom(_, _, _)
EnumerateFrom(lv, idx, i) ==
    IF i >= Len(lv) THEN [raised |-> TRUE, node |-> 0]
    ELSE IF i = idx THEN [raised |-> FALSE, node |-> lv[i + 1]]
    ELSE EnumerateFrom(lv, idx, i + 1)

getitem(t, idx) == EnumerateFrom(Leaves(t), idx, 0)

\* Every node below n through children, n first (pre-order).
RECURSIVE NodePreorder(_, _), SeqPreorder(_, _, _)
NodePreorder(h, n) == <<n>> \o SeqPreorder(h, h[n].children, 1)

SeqPreorder(h, s, i) ==
    IF i > Len(s) THEN <<>> ELSE NodePreorder(h, s[i]) \o SeqPreorder(h, s, i + 1)

TreePreorder(h, roots) == SeqPreorder(h, roots, 1)

\* The nodes of tree t an operation of the model may be applied to.
Targets(t) ==
    LET po == TreePreorder(nodes, trees[t].root_nodes)
    IN  { po[i] : i \in 1..(IF Len(po) < MaxTargets THEN Len(po) ELSE MaxTargets) }

\* Octree.n_nodes (cached_property): the cached value when there is one.
n_nodes(t) ==
    IF trees[t].n_nodes # NoCache THEN trees[t].n_nodes ELSE Len(Leaves(t))

\* A wrong cache clearing: the cached leaf count survives.
ClearCacheKeepsCount(th, t) == th

\* Octree._clear_cache on the tree heap th.
ClearCache(th, t) ==
    IF t \in DOMAIN th THEN [th EXCEPT ![t].n_nodes = NoCache] ELSE th

Op(name, t, n, raised, arg, before) ==
    [ op |-> name, tree |-> t, node |-> n, raised |-> raised, arg |-> arg,
      leaves_before |-> before ]

(***************************************************************************)
(* Init: Octree.__init__ without nodes: the root nodes at size_initial.    *)
(***************************************************************************)
OctreeInit ==
    /\ cfg \in OctreeConfigs
    /\ nodes = RootNodes(cfg.size_initial, 1)
    /\ trees = << [ root_nodes |-> [ i \in 1..Len(RootCoordinates(cfg.size_initial)) |-> i ],
                    n_nodes |-> NoCache ] >>
    /\ lastOp = Op("init", 1, 0, FALSE, <<>>, <<>>)
    /\ firstChildren = [ i \in 1..Len(RootCoordinates(cfg.size_initial)) |-> <<>> ]
    /\ nOps = 0

(***************************************************************************)
(* Node.split                                                              *)
(***************************************************************************)
\* Two wrong refusal tests: the whole size compared with the limit, and a
\* limit that may not be reached.
SplitRefusedWholeSize(nd) ==
    /\ nd.children_cached = <<>>
    /\ nd.size < cfg.size_limit

SplitRefusedAtLimit(nd) ==
    /\ nd.children_cached = <<>>
    /\ nd.size \div 2 <= cfg.size_limit

\* The split is refused: no cached children and half the size below the limit.
SplitRefused(nd) ==
    /\ nd.children_cached = <<>>
    /\ nd.size \div 2 < cfg.size_limit

NodeSplit(t, n) ==
    LET nd == nodes[n]
        before == Leaves(t)
    IN  IF SplitRefused(nd)
        THEN \* raise NodeSplitError: nothing was assigned
             /\ lastOp' = Op("split", t, n, TRUE, <<>>, before)
             /\ UNCHANGED <<cfg, nodes, trees, firstChildren>>
        ELSE LET fresh == nd.children_cached = <<>>
                 kids == IF fresh
                         THEN LET k == Len(nodes)
                              IN  <<k+1, k+2, k+3, k+4, k+5, k+6, k+7, k+8>>
                         ELSE nd.children_cached
                 heap == IF fresh THEN nodes \o ChildNodes(nd) ELSE nodes
             IN  /\ fresh => Len(nodes) + 8 <= MaxNodes
                 /\ nodes' = [heap EXCEPT ![n].children_cached = kids,
                                          ![n].children = kids]
                 /\ trees' = ClearCache(trees, nd.tree)
                 /\ firstChildren' =
                        LET fc == IF fresh
                                  THEN firstChildren \o [ i \in 1..8 |-> <<>> ]
                                  ELSE firstChildren
                        IN  IF fc[n] = <<>> THEN [fc EXCEPT ![n] = kids] ELSE fc
                 /\ lastOp' = Op("split", t, n, FALSE, <<>>, before)
                 /\ UNCHANGED cfg

(***************************************************************************)
(* Node.reset                                                              *)
(***************************************************************************)
NodeReset(t, n) ==
    /\ nodes' = [nodes EXCEPT ![n].children_cached = nodes[n].children,
                              ![n].children = <<>>,
                              ![n].semblance = 0]
    /\ lastOp' = Op("node_reset", t, n, FALSE, <<>>, Leaves(t))
    /\ UNCHANGED <<cfg, trees, firstChildren>>

(***************************************************************************)
(* Octree.reset: clears the caches and builds new root nodes.              *)
(***************************************************************************)
\* The heap and the tree heap after tree t got new root nodes of `size`.
WithNewRoots(h, th, t, size) ==
    LET new == RootNodes(size, t)
    IN  [ heap |-> h \o new,
          trees |-> [th EXCEPT ![t].root_nodes = [ i \in 1..Len(new) |-> Len(h) + i ]] ]

OctreeReset(t) ==
    LET r == WithNewRoots(nodes, ClearCache(trees, t), t, cfg.size_initial)
    IN  /\ Len(r.heap) <= MaxNodes
        /\ nodes' = r.heap
        /\ trees' = r.trees
        /\ firstChildren' =
              firstChildren \o [ i \in 1..(Len(r.heap) - Len(nodes)) |-> <<>> ]
        /\ lastOp' = Op("reset", t, 0, FALSE, <<>>, Leaves(t))
        /\ UNCHANGED cfg

(***************************************************************************)
(* Octree.map_semblance                                                    *)
(***************************************************************************)
\* zip(self, semblance) assigns the first min(len) leaves; the count of
\* assigned leaves is then compared with semblance.size.
MapAssigned(lv, vec) == IF Len(lv) < Len(vec) THEN Len(lv) ELSE Len(vec)

MapRaises(lv, vec) == MapAssigned(lv, vec) # Len(vec)

\* for node, node_semblance in zip(self, semblance): node.semblance = ...
RECURSIVE AssignSemblance(_, _, _, _, _)
AssignSemblance(h, lv, vec, i, k) ==
    IF i > k THEN h
    ELSE AssignSemblance([h EXCEPT ![lv[i]].semblance = vec[i]], lv, vec, i + 1, k)

MapSemblance(t, vec) ==
    LET lv == Leaves(t)
    IN  /\ nodes' = AssignSemblance(nodes, lv, vec, 1, MapAssigned(lv, vec))
        /\ lastOp' = Op("map_semblance", t, 0, MapRaises(lv, vec), vec, lv)
        /\ UNCHANGED <<cfg, trees, firstChildren>>

(***************************************************************************)
(* Octree.n_nodes read: computes and caches the leaf count.                *)
(***************************************************************************)
ReadNNodes(t) ==
    /\ trees[t].n_nodes = NoCache
    /\ trees' = [trees EXCEPT ![t].n_nodes = Len(Leaves(t))]
    /\ lastOp' = Op("n_nodes", t, 0, FALSE, <<>>, Leaves(t))
    /\ UNCHANGED <<cfg, nodes, firstChildren>>

(***************************************************************************)
(* Octree.copy(deep) and Node.set_parent                                   *)
(***************************************************************************)
\* Node.set_parent(tree) from the root nodes: every node reached through
\* children gets tree t.
SetParent(h, roots, t) ==
    LET reached == Range(TreePreorder(h, roots))
    IN  [ n \in DOMAIN h |-> IF n \in reached THEN [h[n] EXCEPT !.tree = t] ELSE h[n] ]

\* Every node a deep copy of the root nodes reaches: through children and
\* through the private _children_cached.
Attached(nd) == IF nd.children # <<>> THEN nd.children ELSE nd.children_cached

RECURSIVE NodeReach(_, _), SeqReach(_, _, _)
NodeReach(h, n) == <<n>> \o SeqReach(h, Attached(h[n]), 1)

SeqReach(h, s, i) ==
    IF i > Len(s) THEN <<>> ELSE NodeReach(h, s[i]) \o SeqReach(h, s, i + 1)

IndexOf(s, x) == CHOOSE i \in DOMAIN s : s[i] = x

\* The tree object a deep copy makes of a node's tree reference: an Octree
\* no variable of the program holds.
DetachedTree == 0

\* copy.deepcopy of the root nodes of heap h: new Node objects appended.
DeepCopyNodes(h, roots) ==
    LET old == SeqReach(h, roots, 1)
        new(n) == Len(h) + IndexOf(old, n)
        renamed(s) == [ i \in 1..Len(s) |-> new(s[i]) ]
    IN  [ heap |-> h \o [ i \in 1..Len(old) |->
                            [h[old[i]] EXCEPT !.children = renamed(h[old[i]].children),
                                              !.children_cached = renamed(h[old[i]].children_cached),
                                              !.tree = DetachedTree] ],
          roots |-> renamed(roots) ]

OctreeCopy(t, deep) ==
    LET t2 == Len(trees) + 1
        c == IF deep THEN DeepCopyNodes(nodes, trees[t].root_nodes)
                     ELSE [ heap |-> nodes, roots |-> trees[t].root_nodes ]
    IN  /\ Len(c.heap) <= MaxNodes
        /\ trees' = Append(trees, [ root_nodes |-> c.roots, n_nodes |-> NoCache ])
        /\ nodes' = SetParent(c.heap, c.roots, t2)
        /\ firstChildren' =   \* a copied node starts with its copied children
              firstChildren \o [ i \in 1..(Len(c.heap) - Len(nodes)) |->
                                    Attached(c.heap[Len(nodes) + i]) ]
        /\ lastOp' = Op(IF deep THEN "deepcopy" ELSE "copy", t, t2, FALSE, <<>>, Leaves(t))
        /\ UNCHANGED cfg

(***************************************************************************)
(* Octree.finest_tree: copy(), reset(), root nodes at size_limit.          *)
(***************************************************************************)
FinestTree(t) ==
    LET t2 == Len(trees) + 1
        th == Append(trees, [ root_nodes |-> trees[t].root_nodes, n_nodes |-> NoCache ])
        h1 == SetParent(nodes, trees[t].root_nodes, t2)
        r1 == WithNewRoots(h1, ClearCache(th, t2), t2, cfg.size_initial)
        r2 == WithNewRoots(r1.heap, r1.trees, t2, cfg.size_limit)
    IN  /\ t2 <= MaxTrees
        /\ Len(r2.heap) <= MaxNodes
        /\ trees' = r2.trees
        /\ nodes' = r2.heap
        /\ firstChildren' =
              firstChildren \o [ i \in 1..(Len(r2.heap) - Len(nodes)) |-> <<>> ]
        /\ lastOp' = Op("finest_tree", t, t2, FALSE, <<>>, Leaves(t))
        /\ UNCHANGED cfg

\* One more octree operation within the budget of the model.
OctreeTick ==
    nOps < MaxOps /\ nOps' = nOps + 1 /\ UNCHANGED <<prefetchVars, searchVars, laterVars>>

DoNodeSplit == \E t \in DOMAIN trees : \E n \in Targets(t) : OctreeTick /\ NodeSplit(t, n)

DoNodeReset == \E t \in DOMAIN trees : \E n \in Targets(t) : OctreeTick /\ NodeReset(t, n)

DoOctreeReset == \E t \in DOMAIN trees : OctreeTick /\ OctreeReset(t)

DoMapSemblance ==
    \E t \in DOMAIN trees : \E d \in -1..1 :
        /\ OctreeTick
        /\ Len(Leaves(t)) + d >= 0
        /\ MapSemblance(t, SemblanceVector(Len(Leaves(t)) + d, 0))

DoReadNNodes == \E t \in DOMAIN trees : OctreeTick /\ ReadNNodes(t)

DoOctreeCopy ==
    \E t \in DOMAIN trees : \E deep \in BOOLEAN :
        OctreeTick /\ Len(trees) < MaxTrees /\ OctreeCopy(t, deep)

DoFinestTree == \E t \in DOMAIN trees : OctreeTick /\ FinestTree(t)

OctreeNext ==
    \/ DoNodeSplit
    \/ DoNodeReset
    \/ DoOctreeReset
    \/ DoMapSemblance
    \/ DoReadNNodes
    \/ DoOctreeCopy
    \/ DoFinestTree

(***************************************************************************)
(* SquirrelPrefetcher and SquirrelProvider.iter_batches.                   *)
(*                                                                         *)
(* The chopper iterator hands out batches 1, 2, ... MaxBatches and then    *)
(* is exhausted.  What a batch holds after clean_traces is an input: it    *)
(* is "ok", "empty" or "short".  None is the end marker of the queue.      *)
(***************************************************************************)
queue_size == 4     \* SquirrelPrefetcher.__init__, async_prefetch_batches

None == [ i |-> 0, kind |-> "none" ]

BatchKinds == { "ok", "empty", "short" }

PrefetchInit ==
    /\ iterator = 0
    /\ queue = <<>>
    /\ worker = "next"
    /\ held = None
    /\ fetched_batches = 0
    /\ consumer = "get"
    /\ delivered = <<>>
    /\ skipped = [ empty_batches |-> 0, short_batches |-> 0 ]
    /\ unfinished = 0

\* A put at the head of the queue instead of its tail.
PutFirst(q, item) == <<item>> \o q

\* asyncio.Queue.put once there is room: the item goes to the tail.
Put(q, item) == Append(q, item)

\* A queue that takes one item more than its maxsize.
QueueFullAboveSize == Len(queue) > queue_size

QueueFull == Len(queue) >= queue_size

\* batch = await asyncio.to_thread(lambda: next(self.iterator, None))
WorkerNext ==
    /\ worker = "next"
    /\ IF iterator < MaxBatches
       THEN \E kind \in BatchKinds :
                /\ held' = [ i |-> iterator + 1, kind |-> kind ]
                /\ iterator' = iterator + 1
                /\ worker' = "filter"
       ELSE /\ held' = None
            /\ worker' = "put_none"
            /\ UNCHANGED iterator
    /\ UNCHANGED <<queue, fetched_batches, consumer, delivered, skipped,
                   unfinished>>

\* await asyncio.to_thread(filter_freqs, batch); self._fetched_batches += 1
WorkerFilter ==
    /\ worker = "filter"
    /\ fetched_batches' = fetched_batches + 1
    /\ worker' = "put"
    /\ UNCHANGED <<iterator, queue, held, consumer, delivered, skipped,
                   unfinished>>

\* await self.queue.put(batch), which waits while the queue is full
WorkerPut ==
    /\ worker = "put"
    /\ ~QueueFull
    /\ queue' = Put(queue, held)
    /\ unfinished' = unfinished + 1
    /\ held' = None
    /\ worker' = "next"
    /\ UNCHANGED <<iterator, fetched_batches, consumer, delivered, skipped>>

\* await self.queue.put(None); break
WorkerPutNone ==
    /\ worker = "put_none"
    /\ ~QueueFull
    /\ queue' = Put(queue, None)
    /\ unfinished' = unfinished + 1
    /\ worker' = "done"
    /\ UNCHANGED <<iterator, held, fetched_batches, consumer, delivered,
                   skipped>>

\* pyrocko_batch = await prefetcher.queue.get() and the code up to the
\* next await: the end marker, an empty batch, a short batch, or the yield.
ConsumerGet ==
    /\ consumer = "get"
    /\ queue # <<>>
    /\ queue' = Tail(queue)
    /\ LET pyrocko_batch == Head(queue) IN
       CASE pyrocko_batch = None ->
                /\ unfinished' = unfinished - 1
                /\ consumer' = "done"
                /\ UNCHANGED <<delivered, skipped>>
         [] pyrocko_batch.kind = "empty" ->
                /\ skipped' = [ skipped EXCEPT !.empty_batches = @ + 1 ]
                /\ UNCHANGED <<consumer, delivered, unfinished>>
         [] pyrocko_batch.kind = "short" ->
                /\ skipped' = [ skipped EXCEPT !.short_batches = @ + 1 ]
                /\ UNCHANGED <<consumer, delivered, unfinished>>
         [] OTHER ->
                /\ delivered' = Append(delivered, pyrocko_batch.i)
                /\ consumer' = "yielded"
                /\ UNCHANGED <<skipped, unfinished>>
    /\ UNCHANGED <<iterator, worker, held, fetched_batches>>

\* the generator is resumed after its yield: prefetcher.queue.task_done()
ConsumerResume ==
    /\ consumer = "yielded"
    /\ unfinished' = unfinished - 1
    /\ consumer' = "get"
    /\ UNCHANGED <<iterator, queue, worker, held, fetched_batches, delivered,
                   skipped>>

PrefetchNext ==
    \/ WorkerNext /\ UNCHANGED <<octreeVars, searchVars, laterVars>>
    \/ WorkerFilter /\ UNCHANGED <<octreeVars, searchVars, laterVars>>
    \/ WorkerPut /\ UNCHANGED <<octreeVars, searchVars, laterVars>>
    \/ WorkerPutNone /\ UNCHANGED <<octreeVars, searchVars, laterVars>>
    \/ ConsumerGet /\ UNCHANGED <<octreeVars, searchVars, laterVars>>
    \/ ConsumerResume /\ UNCHANGED <<octreeVars, searchVars, laterVars>>

(***************************************************************************)
(* The streaming controller, src/qseek/search.py.                          *)
(*                                                                         *)
(* The configuration of a run: per phase the smallest and the largest      *)
(* travel time its tracer gives over the octree and the stations, the      *)
(* blinding of every image function, and the Search fields                 *)
(* detection_blinding and window_length.                                   *)
(***************************************************************************)
TravelTimes ==
    { << <<2, 2>> >>, << <<2, 2>>, <<3, 3>> >>, << <<2, 3>>, <<3, 4>> >> }

SearchConfigs ==
    [ travel_times : TravelTimes,
      blinding : { <<0>>, <<0, 1>> },
      detection_blinding : { 1 },
      window_length : { 4, 5 } ]

MinOf(S) == CHOOSE x \in S : \A y \in S : x <= y

MaxOf(S) == CHOOSE x \in S : \A y \in S : x >= y

\* init_boundaries: shift_max - shift_min, both taken over the ranges of all
\* phases chained together.
ShiftRange(tt) ==
    LET chained == { tt[ph][1] : ph \in DOMAIN tt } \cup { tt[ph][2] : ph \in DOMAIN tt }
    IN  MaxOf(chained) - MinOf(chained)

\* ImageFunctions.get_blinding
get_blinding(blinding) == MaxOf(Range(blinding))

\* init_boundaries: self._window_padding
WindowPadding(c) ==
    ShiftRange(c.travel_times) + c.detection_blinding + get_blinding(c.blinding)

\* A test of the window length that leaves the shift range out.
WindowTooShortForPadding(length, padding, shift) == length < 2 * padding

\* init_boundaries: the test that raises ValueError
WindowTooShort(length, padding, shift) == length < 2 * padding + shift

(***************************************************************************)
(* The windows of chopper_waveforms(tmin, tmax, tinc), as iter_batches     *)
(* calls it: window i is [tmin + i*tinc, min(tmin + (i+1)*tinc, tmax)],    *)
(* and there is one window at least.                                       *)
(***************************************************************************)
sq_tmin == 0        \* squirrel.get_time_span: the first time with waveforms

NoTime == -1        \* time_progress is None; progress.json does not exist

NoBatch == [ start_time |-> NoTime, end_time |-> NoTime ]

\* An iteration that starts at the start of the waveforms whatever it is given.
StartTimeOfWaveforms(given) == sq_tmin

\* iter_batches: start_time = start_time or self.start_time or sq_tmin
StartTime(given) == IF given # NoTime THEN given ELSE sq_tmin

NWindows(tmin, tmax, tinc) ==
    IF tmax > tmin THEN (tmax - tmin + tinc - 1) \div tinc ELSE 1

Window(tmin, tmax, tinc, i) ==
    [ start_time |-> tmin + i * tinc,
      end_time |-> Min(tmin + (i + 1) * tinc, tmax) ]

\* WaveformBatch.duration
duration(b) == b.end_time - b.start_time

\* A test that lets through every batch of half the minimum length.
TooShortBelowHalf(b, min_length) ==
    min_length # 0 /\ 2 * (b.end_time - b.start_time) < min_length

\* iter_batches: min_length and batch.duration < min_length
TooShort(b, min_length) == min_length # 0 /\ duration(b) < min_length

(***************************************************************************)
(* Semblance.find_peaks on the maximum semblance trace of the unpadded     *)
(* window: the local maxima (the middle of a plateau) of at least the      *)
(* height, thinned to the minimum distance with the higher peak kept,      *)
(* of at least the prominence, in ascending order of their index.          *)
(***************************************************************************)
SemblanceValues == 0..1

detection_threshold == 1

Traces(n) == [ 1..n -> SemblanceValues ]

LocalMaxima(tr) ==
    { m \in DOMAIN tr :
        \E l \in DOMAIN tr : \E r \in DOMAIN tr :
            /\ 1 < l /\ l <= r /\ r < Len(tr)
            /\ tr[l - 1] < tr[l] /\ tr[r + 1] < tr[r]
            /\ \A j \in l..r : tr[j] = tr[l]
            /\ m = (l + r) \div 2 }

Highest(tr, P) ==
    CHOOSE p \in P : \A q \in P : tr[q] < tr[p] \/ (tr[q] = tr[p] /\ q <= p)

RECURSIVE SelectByDistance(_, _, _, _)
SelectByDistance(tr, cands, kept, distance) ==
    IF cands = {} THEN kept
    ELSE LET p == Highest(tr, cands)
         IN  SelectByDistance(tr,
                 { q \in cands : q - p >= distance \/ p - q >= distance } \ { p },
                 kept \cup { p }, distance)

Prominence(tr, p) ==
    LET higherLeft == { j \in 1..(p - 1) : tr[j] > tr[p] }
        higherRight == { j \in (p + 1)..Len(tr) : tr[j] > tr[p] }
        l == IF higherLeft = {} THEN 1 ELSE MaxOf(higherLeft)
        r == IF higherRight = {} THEN Len(tr) ELSE MinOf(higherRight)
        leftBase == MinOf({ tr[j] : j \in l..p })
        rightBase == MinOf({ tr[j] : j \in p..r })
    IN  tr[p] - (IF leftBase > rightBase THEN leftBase ELSE rightBase)

RECURSIVE Ascending(_)
Ascending(P) ==
    IF P = {} THEN <<>>
    ELSE LET p == MinOf(P) IN <<p>> \o Ascending(P \ { p })

find_peaks(tr, height, prominence, distance) ==
    LET high == { p \in LocalMaxima(tr) : tr[p] >= height }
        apart == SelectByDistance(tr, high, {}, distance)
    IN  Ascending({ p \in apart : Prominence(tr, p) >= prominence })

(***************************************************************************)
(* Search.start, one action per await.  The state after construction is    *)
(* that of Search.from_config in a project that has no run directory.      *)
(***************************************************************************)
SearchInit ==
    /\ conf \in SearchConfigs
    /\ spc = "created"
    /\ run = 1
    /\ rundir = FALSE
    /\ progress = NoTime
    /\ progress_file = NoTime
    /\ shift_range = 0
    /\ window_padding = 0
    /\ start_time = NoTime
    /\ i_batch = 0
    /\ batch = NoBatch
    /\ detections = <<>>
    /\ i_detection = 0
    /\ store = <<>>
    /\ emitted = <<>>
    /\ n_traces = 0
    /\ exports = 0
    /\ completed = {}
    /\ searched = <<>>
    /\ stopped_at = "none"
    /\ resumed_from = NoTime

\* has_rundir: the attribute _rundir is set and the directory exists
has_rundir == spc = "loaded" /\ rundir

\* start: if not self.has_rundir(): self.init_rundir(force=force_rundir)
Start ==
    /\ spc \in { "created", "loaded" }
    /\ \E force \in BOOLEAN :
        IF has_rundir
        THEN /\ spc' = "prepare"
             /\ UNCHANGED <<rundir, store, stopped_at>>
        ELSE IF rundir /\ ~force
        THEN /\ spc' = "stopped"
             /\ stopped_at' = "init_rundir"
             /\ UNCHANGED <<rundir, store>>
        ELSE /\ rundir' = TRUE
             /\ store' = <<>>
             /\ spc' = "prepare"
             /\ UNCHANGED stopped_at
    /\ UNCHANGED <<conf, run, progress, progress_file, shift_range,
                   window_padding, start_time, i_batch, batch, detections,
                   i_detection, emitted, n_traces, exports, completed,
                   searched, resumed_from>>
    /\ UNCHANGED <<octreeVars, prefetchVars, laterVars>>

\* await self.prepare(), which ends with init_boundaries, and the call of
\* iter_batches with start_time = self._progress.time_progress
Prepare ==
    /\ spc = "prepare"
    /\ shift_range' = ShiftRange(conf.travel_times)
    /\ window_padding' = WindowPadding(conf)
    /\ IF WindowTooShort(conf.window_length, window_padding', shift_range')
       THEN /\ spc' = "refused"
            /\ UNCHANGED <<start_time, i_batch>>
       ELSE /\ spc' = "next_batch"
            /\ start_time' = StartTime(progress)
            /\ i_batch' = 0
    /\ UNCHANGED <<conf, run, rundir, progress, progress_file, batch,
                   detections, i_detection, store, emitted, n_traces, exports,
                   completed, searched, stopped_at, resumed_from>>
    /\ UNCHANGED <<octreeVars, prefetchVars, laterVars>>

\* set_progress(batch.end_time), after stats.add_processed_batch
SetProgress(time) ==
    /\ progress' = time
    /\ progress_file' = time
    /\ completed' = completed \cup { [ run |-> run, window |-> batch ] }

\* async for images, batch in iter_images(iter_batches(...)): the next
\* window of the chopper that is neither empty nor too short, or the end
NextBatch ==
    /\ spc = "next_batch"
    /\ IF i_batch >= NWindows(start_time, MaxTime, conf.window_length)
       THEN /\ spc' = "export"
            /\ UNCHANGED <<i_batch, batch, searched, skipped>>
       ELSE LET b == Window(start_time, MaxTime, conf.window_length, i_batch) IN
            /\ i_batch' = i_batch + 1
            /\ \E is_empty \in BOOLEAN :
                 IF is_empty
                 THEN /\ skipped' = [ skipped EXCEPT !.empty_batches = @ + 1 ]
                      /\ UNCHANGED <<spc, batch, searched>>
                 ELSE IF TooShort(b, 2 * window_padding)
                 THEN /\ skipped' = [ skipped EXCEPT !.short_batches = @ + 1 ]
                      /\ UNCHANGED <<spc, batch, searched>>
                 ELSE /\ spc' = "search"
                      /\ batch' = b
                      /\ searched' = Append(searched, b)
                      /\ UNCHANGED skipped
    /\ UNCHANGED <<conf, run, rundir, progress, progress_file, shift_range,
                   window_padding, start_time, detections, i_detection, store,
                   emitted, n_traces, exports, completed, stopped_at,
                   resumed_from>>
    /\ UNCHANGED <<octreeVars, laterVars, iterator, queue, worker, held, fetched_batches,
                   consumer, delivered, unfinished>>

\* SearchTraces.search: the detections of the peaks, in the order of the
\* peaks.  Of an EventDetection the model keeps the time and the identity.
Detections(tr, idx) ==
    [ j \in 1..Len(idx) |->
        [ time |-> batch.start_time + (idx[j] - 1),
          uid |-> <<run, batch.start_time, j>> ] ]

\* A loop that never hands the detections to new_detections.
NoDetections(dets) == FALSE

\* start: if detections: await self.new_detections(detections)
HasDetections(dets) == dets # <<>>

\* detections, semblance_trace = await search_block.search() and the code up
\* to the next await
SearchBatch ==
    /\ spc = "search"
    /\ \E tr \in Traces(duration(batch)) :
        LET idx == find_peaks(tr, detection_threshold, detection_threshold,
                              conf.detection_blinding)
        IN  /\ detections' = Detections(tr, idx)
            /\ n_traces' = n_traces + 1
            /\ i_detection' = 0
            /\ IF HasDetections(detections')
               THEN /\ spc' = "gather"
                    /\ UNCHANGED <<progress, progress_file, completed>>
               ELSE /\ SetProgress(batch.end_time)
                    /\ spc' = "next_batch"
    /\ UNCHANGED <<conf, run, rundir, shift_range, window_padding, start_time,
                   i_batch, batch, store, emitted, exports, searched,
                   stopped_at, resumed_from>>
    /\ UNCHANGED <<octreeVars, prefetchVars, laterVars>>

\* new_detections: await asyncio.gather(add_magnitude_and_features ...)
Gather ==
    /\ spc = "gather"
    /\ spc' = "add"
    /\ i_detection' = 1
    /\ UNCHANGED <<conf, run, rundir, progress, progress_file, shift_range,
                   window_padding, start_time, i_batch, batch, detections,
                   store, emitted, n_traces, exports, completed, searched,
                   stopped_at, resumed_from>>
    /\ UNCHANGED <<octreeVars, prefetchVars, laterVars>>

\* A loop over the detections from the last to the first.
NextDetectionReversed(dets, i) == dets[Len(dets) + 1 - i]

\* new_detections: for detection in detections
NextDetection(dets, i) == dets[i]

\* await self._detections.add(detection)
AddDetection ==
    /\ spc = "add"
    /\ store' = Append(store, NextDetection(detections, i_detection))
    /\ spc' = "emit"
    /\ UNCHANGED <<conf, run, rundir, progress, progress_file, shift_range,
                   window_padding, start_time, i_batch, batch, detections,
                   i_detection, emitted, n_traces, exports, completed,
                   searched, stopped_at, resumed_from>>
    /\ UNCHANGED <<octreeVars, prefetchVars, laterVars>>

\* await self._new_detection.emit(detection) and the code up to the next
\* await: the next detection, or the export at every hundredth detection
\* and the end of the loop body
EmitDetection ==
    /\ spc = "emit"
    /\ emitted' = Append(emitted, NextDetection(detections, i_detection))
    /\ IF i_detection < Len(detections)
       THEN /\ i_detection' = i_detection + 1
            /\ spc' = "add"
            /\ UNCHANGED <<progress, progress_file, completed, exports>>
       ELSE /\ exports' = IF Len(store) # 0 /\ Len(store) % 100 = 0
                          THEN exports + 1 ELSE exports
            /\ SetProgress(batch.end_time)
            /\ spc' = "next_batch"
            /\ UNCHANGED i_detection
    /\ UNCHANGED <<conf, run, rundir, shift_range, window_padding, start_time,
                   i_batch, batch, detections, store, n_traces, searched,
                   stopped_at, resumed_from>>
    /\ UNCHANGED <<octreeVars, prefetchVars, laterVars>>

\* after the loop: await self._detections.export_detections(...)
FinalExport ==
    /\ spc = "export"
    /\ exports' = exports + 1
    /\ spc' = "finished"
    /\ UNCHANGED <<conf, run, rundir, progress, progress_file, shift_range,
                   window_padding, start_time, i_batch, batch, detections,
                   i_detection, store, emitted, n_traces, completed, searched,
                   stopped_at, resumed_from>>
    /\ UNCHANGED <<octreeVars, prefetchVars, laterVars>>

\* The awaits at which start can be cancelled, or at which what it awaits
\* can raise.
Awaiting ==
    { "prepare", "next_batch", "search", "gather", "add", "emit", "export" }

\* asyncio.CancelledError or another exception leaves start
Stop ==
    /\ spc \in Awaiting
    /\ stopped_at' = spc
    /\ spc' = "stopped"
    /\ UNCHANGED <<conf, run, rundir, progress, progress_file, shift_range,
                   window_padding, start_time, i_batch, batch, detections,
                   i_detection, store, emitted, n_traces, exports, completed,
                   searched, resumed_from>>
    /\ UNCHANGED <<octreeVars, prefetchVars, laterVars>>

\* Search.load_rundir in a new process: the configuration, the detections
\* and, if progress.json exists, the progress are read from the run
\* directory
LoadRundir ==
    /\ spc \in { "stopped", "finished" }
    /\ rundir
    /\ run < MaxRuns
    /\ run' = run + 1
    /\ progress' = progress_file
    /\ resumed_from' = progress_file
    /\ spc' = "loaded"
    /\ shift_range' = 0
    /\ window_padding' = 0
    /\ start_time' = NoTime
    /\ i_batch' = 0
    /\ batch' = NoBatch
    /\ detections' = <<>>
    /\ i_detection' = 0
    /\ searched' = <<>>
    /\ stopped_at' = "none"
    /\ emitted' = <<>>
    /\ UNCHANGED <<conf, rundir, progress_file, store, n_traces, exports,
                   completed>>
    /\ UNCHANGED <<octreeVars, prefetchVars, laterVars>>

SearchNext ==
    \/ Start
    \/ Prepare
    \/ NextBatch
    \/ SearchBatch
    \/ Gather
    \/ AddDetection
    \/ EmitDetection
    \/ FinalExport
    \/ Stop
    \/ LoadRundir

(***************************************************************************)
(* SearchTraces.search on the octree heap.  The template, the octree of    *)
(* the parent Search, is tree 1.  src/qseek/search.py takes                *)
(*     octree = octree or parent.octree.reset()                            *)
(* and lassie/search/base.py takes                                         *)
(*     octree = octree or parent.octree.copy(deep=True);                   *)
(* the recursion after a refinement passes the octree on.                  *)
(***************************************************************************)
Template == 1

SearchVariants == { "qseek", "lassie" }

FrameInit ==
    \E v \in SearchVariants :
        frame = [ variant |-> v, octree |-> 0, at |-> "idle", n_frames |-> 0 ]

FrameIdle ==
    frame = [ variant |-> "qseek", octree |-> 0, at |-> "idle", n_frames |-> 0 ]

\* search() is called without an octree: the octree of the frame
FrameStart ==
    /\ frame.at = "idle"
    /\ frame.n_frames < MaxFrames
    /\ IF frame.variant = "qseek"
       THEN /\ OctreeReset(Template)
            /\ frame' = [frame EXCEPT !.octree = Template, !.at = "search"]
       ELSE /\ OctreeCopy(Template, TRUE)
            /\ frame' = [frame EXCEPT !.octree = Len(trees) + 1, !.at = "search"]
    /\ UNCHANGED <<nOps, notFrame>>

\* peaks were found: the semblance of the peak's time slice is mapped onto
\* the octree, a node above the split threshold is split and search calls
\* itself with the octree
FrameRefine ==
    /\ frame.at = "search"
    /\ \E n \in Range(Leaves(frame.octree)) :
          LET lv == Leaves(frame.octree)
              vec == SemblanceVector(Len(lv), 0)
              mapped == AssignSemblance(nodes, lv, vec, 1, MapAssigned(lv, vec))
              nd == mapped[n]
              fresh == nd.children_cached = <<>>
              kids == IF fresh
                      THEN LET first == Len(mapped)
                           IN  [ i \in 1..8 |-> first + i ]
                      ELSE nd.children_cached
              heap == IF fresh THEN mapped \o ChildNodes(nd) ELSE mapped
          IN  /\ ~SplitRefused(nd)
              /\ fresh => Len(nodes) + 8 <= MaxNodes
              /\ nodes' = [heap EXCEPT ![n].children_cached = kids,
                                       ![n].children = kids]
              /\ trees' = ClearCache(trees, nd.tree)
              /\ firstChildren' =
                     LET fc == IF fresh
                               THEN firstChildren \o [ i \in 1..8 |-> <<>> ]
                               ELSE firstChildren
                     IN  IF fc[n] = <<>> THEN [fc EXCEPT ![n] = kids] ELSE fc
              /\ lastOp' = Op("split", frame.octree, n, FALSE, <<>>, lv)
    /\ UNCHANGED <<cfg, nOps, frame, notFrame>>

\* no node is refined: for each peak the semblance of its time slice is
\* mapped onto the octree and a detection is made; search returns
FrameReturn ==
    /\ frame.at = "search"
    /\ \E peaks \in BOOLEAN :
          IF peaks
          THEN MapSemblance(frame.octree,
                            SemblanceVector(Len(Leaves(frame.octree)), 0))
          ELSE UNCHANGED octreeVars
    /\ frame' = [frame EXCEPT !.at = "idle", !.n_frames = @ + 1]
    /\ UNCHANGED <<nOps, notFrame>>

FrameNext ==
    \/ FrameStart
    \/ FrameRefine
    \/ FrameReturn

(***************************************************************************)
(* lassie/tracers/cake.py: the 1-D tracer, its travel-time trees in the    *)
(* cache directory and the LRU cache of interpolated travel times.         *)
(*                                                                         *)
(* An earth model is one of two layered models, a coordinate array is the  *)
(* epicentral distance of one receiver at the surface.  A travel time is   *)
(* a float of 64 bits, here an integer in units of its last place; a       *)
(* float of 32 bits has F32Step of these units as its last place.          *)
(***************************************************************************)
EarthModels == { 1, 2 }

\* EarthModel.hash: sha1 of the dumped profiles
EarthModelHash(em) == <<"sha1", em>>

\* CakeTracer.get_vmin
get_vmin(em) == em

\* CakeTracer.timings
timings == ("cake:P" :> "P,p") @@ ("cake:S" :> "S,s")

\* Timing.id: the definition without commas, blanks and semicolons
TimingId(definition) == IF definition = "P,p" THEN "Pp" ELSE "Ss"

\* TraveltimeTree.filename
TreeFilename(tree) == <<TimingId(tree.timing), EarthModelHash(tree.earthmodel)>>

\* what prepare takes from the octree and the stations: the bounds of the
\* distances and depths, and size_limit
Geometries ==
    [ distance_bounds : { <<0, 1>>, <<0, 2>> },
      source_depth_bounds : { <<0, 1>> },
      receiver_depth_bounds : { <<0, 0>> },
      size_limit : { 6, 12 } ]

\* traveltime_tree_args of prepare
TraveltimeTreeArgs(em, g) ==
    [ earthmodel |-> em,
      distance_bounds |-> g.distance_bounds,
      source_depth_bounds |-> g.source_depth_bounds,
      receiver_depth_bounds |-> g.receiver_depth_bounds,
      spatial_tolerance |-> g.size_limit \div 2,
      time_tolerance |-> g.size_limit \div (get_vmin(em) * 3) ]

check_bounds(self, requested) ==
    self[1] <= requested[1] /\ self[2] >= requested[2]

\* Two wrong reuse tests: one that takes the tolerances the other way
\* round, one that looks at the phase only.
is_suited_coarser(tree, timing, args) ==
    /\ tree.earthmodel = args.earthmodel
    /\ tree.timing = timing
    /\ check_bounds(tree.distance_bounds, args.distance_bounds)
    /\ check_bounds(tree.source_depth_bounds, args.source_depth_bounds)
    /\ check_bounds(tree.receiver_depth_bounds, args.receiver_depth_bounds)
    /\ tree.time_tolerance >= args.time_tolerance
    /\ tree.spatial_tolerance >= args.spatial_tolerance

SuitedTreesOfPhase(cached_trees, timing, args) ==
    { tree \in cached_trees : tree.timing = timing }

\* TraveltimeTree.is_suited(timing=timing, **traveltime_tree_args)
is_suited(tree, timing, args) ==
    /\ tree.earthmodel = args.earthmodel
    /\ tree.timing = timing
    /\ check_bounds(tree.distance_bounds, args.distance_bounds)
    /\ check_bounds(tree.source_depth_bounds, args.source_depth_bounds)
    /\ check_bounds(tree.receiver_depth_bounds, args.receiver_depth_bounds)
    /\ tree.time_tolerance <= args.time_tolerance
    /\ tree.spatial_tolerance <= args.spatial_tolerance

\* the cached trees the loop of prepare can break at
SuitedTrees(cached_trees, timing, args) ==
    { tree \in cached_trees : is_suited(tree, timing, args) }

\* TraveltimeTree.new(timing=timing, **traveltime_tree_args)
NewTree(timing, args) ==
    [ earthmodel |-> args.earthmodel,
      timing |-> timing,
      distance_bounds |-> args.distance_bounds,
      source_depth_bounds |-> args.source_depth_bounds,
      receiver_depth_bounds |-> args.receiver_depth_bounds,
      time_tolerance |-> args.time_tolerance,
      spatial_tolerance |-> args.spatial_tolerance ]

\* TraveltimeTree.save(cache_dir): the archive of that filename is written
Save(dir, tree) ==
    { other \in dir : TreeFilename(other) # TreeFilename(tree) } \cup { tree }

NoArgs == [ earthmodel |-> 0 ]

NoAnswer == [ call |-> "none" ]

CakeInit ==
    cake = [ cache_dir |-> {}, cached_trees |-> {}, args |-> NoArgs,
             traveltime_trees |-> <<>>, prepared |-> FALSE,
             lru |-> <<>>, answer |-> NoAnswer ]

\* the trees an archive of the cache directory can hold
StoredTrees ==
    [ earthmodel : EarthModels,
      timing : { "P,p", "S,s" },
      distance_bounds : { <<0, 1>>, <<0, 2>>, <<1, 2>> },
      source_depth_bounds : { <<0, 0>>, <<0, 1>> },
      receiver_depth_bounds : { <<0, 0>>, <<0, 1>> },
      time_tolerance : { 1, 2, 4 },
      spatial_tolerance : { 3, 6 } ]

\* a cache directory with one archive
SuitedInit ==
    \E tree \in StoredTrees :
        cake = [ cache_dir |-> { tree }, cached_trees |-> {}, args |-> NoArgs,
                 traveltime_trees |-> <<>>, prepared |-> FALSE,
                 lru |-> <<>>, answer |-> NoAnswer ]

\* tree.is_suited(timing=timing, **traveltime_tree_args) on the archive
CakeIsSuited ==
    /\ cake.answer = NoAnswer
    /\ \E tree \in cake.cache_dir, phase_descr \in DOMAIN timings,
          em \in EarthModels, g \in Geometries :
          LET args == TraveltimeTreeArgs(em, g)
          IN  cake' = [cake EXCEPT
                  !.answer = [ call |-> "is_suited", tree |-> tree,
                               timing |-> timings[phase_descr], args |-> args,
                               suited |-> is_suited(tree, timings[phase_descr],
                                                    args) ] ]
    /\ UNCHANGED notCake

\* CakeTracer.prepare(octree, stations), of a tracer constructed with one
\* of the earth models, on the cache directory the runs before have left
CakePrepare ==
    /\ \E em \in EarthModels, g \in Geometries :
        LET args == TraveltimeTreeArgs(em, g)
            cached_trees == cake.cache_dir
            TreeOf(phase_descr) ==
                LET suited == SuitedTrees(cached_trees, timings[phase_descr], args)
                IN  IF suited # {}
                    THEN [ tree |-> CHOOSE tree \in suited : TRUE,
                           origin |-> "cached" ]
                    ELSE [ tree |-> NewTree(timings[phase_descr], args),
                           origin |-> "new" ]
            P == TreeOf("cake:P")
            S == TreeOf("cake:S")
            dirP == IF P.origin = "new" THEN Save(cake.cache_dir, P.tree)
                    ELSE cake.cache_dir
            dirS == IF S.origin = "new" THEN Save(dirP, S.tree) ELSE dirP
        IN  cake' = [ cache_dir |-> dirS, cached_trees |-> cached_trees,
                      args |-> args,
                      traveltime_trees |-> ("cake:P" :> P) @@ ("cake:S" :> S),
                      prepared |-> TRUE,
                      lru |-> <<>>, answer |-> NoAnswer ]
    /\ UNCHANGED notCake

Coordinates == 0..2

F32Step == 4        \* units of a float of 64 bits in the last place of 32

NaN == -1

\* sptree.interpolate_many under timing.evaluate: the travel time of the
\* stored phase, NaN outside the bounds of the tree
interpolate_many(tree, c) ==
    IF c < tree.distance_bounds[1] \/ c > tree.distance_bounds[2]
    THEN NaN
    ELSE 5 * c + tree.time_tolerance

\* ndarray.astype(np.float32): round to nearest, ties to even
astype_float32(x) ==
    IF x = NaN
    THEN [ f32 |-> NaN ]
    ELSE LET q == x \div F32Step
             r == x % F32Step
         IN  [ f32 |-> IF 2 * r < F32Step THEN q
                       ELSE IF 2 * r > F32Step THEN q + 1
                       ELSE IF q % 2 = 0 THEN q ELSE q + 1 ]

\* ndarray.astype(float): exact
astype_float(y) == IF y.f32 = NaN THEN NaN ELSE y.f32 * F32Step

\* sha1(coordinates.data).digest()
coord_hash(c) == <<"sha1", c>>

\* lru.LRU: the entries, least recently used first
LRUHas(lru, key) == \E i \in DOMAIN lru : lru[i].key = key

LRUIndex(lru, key) == CHOOSE i \in DOMAIN lru : lru[i].key = key

LRURemove(lru, i) == SubSeq(lru, 1, i - 1) \o SubSeq(lru, i + 1, Len(lru))

\* lru[key] = value
LRUSet(lru, key, value) ==
    LET entry == [ key |-> key, value |-> value ]
    IN  IF LRUHas(lru, key)
        THEN LRURemove(lru, LRUIndex(lru, key)) \o << entry >>
        ELSE IF Len(lru) >= LRU_CACHE
        THEN Tail(lru) \o << entry >>
        ELSE lru \o << entry >>

\* A wrong lookup, the entry used last whatever the key.
LRUGetLast(lru, key) == lru[Len(lru)].value

\* lru[key], the value
LRUGet(lru, key) == lru[LRUIndex(lru, key)].value

\* lru[key], the order after it
LRUTouch(lru, key) ==
    LET i == LRUIndex(lru, key)
    IN  LRURemove(lru, i) \o << lru[i] >>

\* TraveltimeTree._get_traveltime_sptree(coordinates): the cache after the
\* call and the travel time it returns
get_traveltime_sptree(lru, tree, c) ==
    LET key == coord_hash(c)
        filled == IF ~LRUHas(lru, key)
                  THEN LRUSet(lru, key, astype_float32(interpolate_many(tree, c)))
                  ELSE lru
    IN  [ lru |-> LRUTouch(filled, key),
          traveltime |-> astype_float(LRUGet(filled, key)),
          hit |-> LRUHas(lru, key),
          evicted |-> ~LRUHas(lru, key) /\ Len(lru) >= LRU_CACHE ]

\* the calls of _get_traveltime_sptree for cs[i], cs[i+1], ... in turn
\* (observed with it: whether a call found its key, and whether one made the
\* cache drop an entry)
RECURSIVE Lookups(_, _, _, _, _)
Lookups(lru, tree, cs, i, done) ==
    IF i > Len(cs)
    THEN [ lru |-> lru, traveltimes |-> done.traveltimes, found |-> done.found,
           evicted |-> done.evicted ]
    ELSE LET r == get_traveltime_sptree(lru, tree, cs[i])
         IN  Lookups(r.lru, tree, cs, i + 1,
                     [ traveltimes |-> Append(done.traveltimes, r.traveltime),
                       found |-> done.found \/ r.hit,
                       evicted |-> done.evicted \/ r.evicted ])

NoLookups == [ traveltimes |-> <<>>, found |-> FALSE, evicted |-> FALSE ]

\* the coordinate arrays of the nodes of an octree, or the receivers of a
\* detection
CoordinateLists ==
    { <<c>> : c \in Coordinates } \cup
    { <<c, (c + 1) % 3>> : c \in Coordinates }

NoArrival == [ tracer |-> "None" ]

\* CakeTracer.get_traveltimes(phase, octree, stations)
CakeGetTraveltimes ==
    /\ cake.prepared
    /\ \E cs \in CoordinateLists :
          LET tree == cake.traveltime_trees["cake:P"].tree
              r == Lookups(cake.lru, tree, cs, 1, NoLookups)
          IN  cake' = [cake EXCEPT
                  !.lru = r.lru,
                  !.answer = [ call |-> "get_traveltimes", coordinates |-> cs,
                               traveltimes |-> r.traveltimes,
                               found |-> r.found, evicted |-> r.evicted ] ]
    /\ UNCHANGED notCake

\* the cache of a tree is emptied (LRU.clear)
CakeClearLRU ==
    /\ cake.prepared
    /\ cake.lru # <<>>
    /\ cake' = [cake EXCEPT !.lru = <<>>, !.answer = NoAnswer]
    /\ UNCHANGED notCake

EventTimes == { 0, 100 }

\* CakeTracer.get_arrivals(phase, event_time, source, receivers), with
\* RayTracer.get_traveltimes_locations and TraveltimeTree.get_traveltime.
\* A travel time is a multiple of the microsecond of timedelta.
CakeGetArrivals ==
    /\ cake.prepared
    /\ \E event_time \in EventTimes, receivers \in CoordinateLists :
          LET tree == cake.traveltime_trees["cake:P"].tree
              r == Lookups(cake.lru, tree, receivers, 1, NoLookups)
              arrivals == [ i \in DOMAIN receivers |->
                              IF r.traveltimes[i] = NaN
                              THEN NoArrival
                              ELSE [ tracer |-> "CakeArrival", phase |-> "cake:P",
                                     time |-> event_time + r.traveltimes[i] ] ]
          IN  cake' = [cake EXCEPT
                  !.lru = r.lru,
                  !.answer = [ call |-> "get_arrivals",
                               event_time |-> event_time,
                               receivers |-> receivers,
                               arrivals |-> arrivals ] ]
    /\ UNCHANGED notCake

CakeNext ==
    \/ CakePrepare
    \/ CakeGetTraveltimes
    \/ CakeClearLRU
    \/ CakeGetArrivals

(***************************************************************************)
(* src/qseek/models/station.py and lassie/tracers/fast_marching: the       *)
(* stations of a search, and the 3-D tracer with the travel-time volume    *)
(* of each station in its cache directory.                                 *)
(*                                                                         *)
(* A station is its NSL code, its latitude and longitude and its offset    *)
(* (east, north, depth) from the centre of the octree.                     *)
(***************************************************************************)
StationUniverse ==
    { [ nsl |-> "XX.A.", lat |-> 50, lon |-> 10, offset |-> <<0, 0, 0>> ],
      [ nsl |-> "XX.A.", lat |-> 50, lon |-> 10, offset |-> <<30, 0, 0>> ],
      [ nsl |-> "XX.A.", lat |-> 0, lon |-> 10, offset |-> <<0, 0, 0>> ],
      [ nsl |-> "XX.B.", lat |-> 50, lon |-> 0, offset |-> <<0, 0, 0>> ],
      [ nsl |-> "XX.B.", lat |-> 50, lon |-> 11, offset |-> <<0, 10, 0>> ],
      [ nsl |-> "XX.B.", lat |-> 50, lon |-> 11, offset |-> <<0, 0, -5>> ] }

\* the stations of a configuration
StationLists ==
    { <<>> } \cup { <<a>> : a \in StationUniverse }
        \cup { <<a, b>> : a \in StationUniverse, b \in StationUniverse }
        \cup { <<a, b, c>> : a \in StationUniverse, b \in StationUniverse,
                              c \in StationUniverse }

\* list.remove(sta): the first element equal to sta
RECURSIVE FirstEqual(_, _, _)
FirstEqual(list, sta, i) ==
    IF list[i] = sta THEN i ELSE FirstEqual(list, sta, i + 1)

ListRemove(list, sta) ==
    LET i == FirstEqual(list, sta, 1)
    IN  SubSeq(list, 1, i - 1) \o SubSeq(list, i + 1, Len(list))

\* Two wrong weedings of one station: one that lets duplicates pass, one
\* that lets a zero longitude pass.
WeedsOutBadOnly(sta, seen_nsls) == sta.lat = 0 \/ sta.lon = 0

WeedsOutZeroLatOnly(sta, seen_nsls) == sta.lat = 0 \/ sta.nsl \in seen_nsls

\* the body of the loop of weed_stations: is sta removed?
WeedsOut(sta, seen_nsls) ==
    \/ sta.lat = 0 \/ sta.lon = 0
    \/ sta.nsl \in seen_nsls

\* Stations.weed_stations: the loop over self.stations.copy() from copy[i]
RECURSIVE weed_stations(_, _, _, _)
weed_stations(stations, copy, i, seen_nsls) ==
    IF i > Len(copy)
    THEN stations
    ELSE IF WeedsOut(copy[i], seen_nsls)
    THEN weed_stations(ListRemove(stations, copy[i]), copy, i + 1, seen_nsls)
    ELSE weed_stations(stations, copy, i + 1, seen_nsls \cup { copy[i].nsl })

\* A wrong iteration, over the blacklisted stations as well.
IterAll(stations, blacklist) == stations

\* Stations.__iter__
Iter(stations, blacklist) ==
    SelectSeq(stations, LAMBDA sta : sta.nsl \notin blacklist)

\* Stations.n_stations
n_stations(stations, blacklist) == Len(Iter(stations, blacklist))

Blacklists == { {}, { "XX.B." } }

\* the box and the grid Constant3DVelocityModel.get_model takes from the
\* octree: bounds against the centre, and the spacing of the grid
FmGeometries ==
    { [ east_bounds |-> <<-20, 20>>, north_bounds |-> <<-20, 20>>,
        depth_bounds |-> <<0, 20>>, grid_spacing |-> 10 ],
      [ east_bounds |-> <<-40, 40>>, north_bounds |-> <<-40, 40>>,
        depth_bounds |-> <<0, 40>>, grid_spacing |-> 20 ],
      [ east_bounds |-> <<-40, 40>>, north_bounds |-> <<-40, 40>>,
        depth_bounds |-> <<0, 40>>, grid_spacing |-> 10 ] }

velocity == 5000

\* np.arange(bounds[0], bounds[1], grid_spacing).size
ArangeSize(bounds, grid_spacing) ==
    (bounds[2] - bounds[1] + grid_spacing - 1) \div grid_spacing

\* VelocityModel3D.hash: sha1 of the bytes of the velocity array, which for
\* the constant model are the velocity, once for each cell of the grid
VelocityModelHash(model) ==
    <<"sha1", velocity,
      ArangeSize(model.east_bounds, model.grid_spacing)
          * ArangeSize(model.north_bounds, model.grid_spacing)
          * ArangeSize(model.depth_bounds, model.grid_spacing)>>

\* A wrong test, of the east offset only.
is_inside_east(model, station) ==
    model.east_bounds[1] <= station.offset[1]
        /\ station.offset[1] <= model.east_bounds[2]

\* VelocityModel3D.is_inside
is_inside(model, station) ==
    /\ model.east_bounds[1] <= station.offset[1]
    /\ station.offset[1] <= model.east_bounds[2]
    /\ model.north_bounds[1] <= station.offset[2]
    /\ station.offset[2] <= model.north_bounds[2]
    /\ model.depth_bounds[1] <= station.offset[3]
    /\ station.offset[3] <= model.depth_bounds[2]

\* StationTravelTimeVolume of calculate_from_eikonal
Volume(model, station) ==
    [ station |-> station,
      velocity_model_hash |-> VelocityModelHash(model),
      east_bounds |-> model.east_bounds,
      north_bounds |-> model.north_bounds,
      depth_bounds |-> model.depth_bounds,
      grid_spacing |-> model.grid_spacing ]

\* cache_dir / StationTravelTimeVolume.filename
VolumeFile(volume) == <<volume.velocity_model_hash, volume.station.nsl>>

\* keys of a dict: str objects and int objects are never equal
PyStr(s) == <<"str", s>>

\* hash(receiver), an int
PyHash(receiver) == <<"int", receiver.nsl>>

NoModel == [ grid_spacing |-> 0 ]

FmInit ==
    \E loaded \in StationLists, blacklist \in Blacklists :
        fm = [ at |-> "config", stations |-> loaded, blacklist |-> blacklist,
               cache |-> {}, model |-> NoModel, traveltime_models |-> {},
               computed |-> {}, outside |-> {}, weeded |-> FALSE,
               prepared |-> "no", n_prepare |-> 0,
               answer |-> NoAnswer ]

FmIdle ==
    fm = [ at |-> "config", stations |-> <<>>, blacklist |-> {},
           cache |-> {}, model |-> NoModel, traveltime_models |-> {},
           computed |-> {}, outside |-> {}, weeded |-> FALSE,
               prepared |-> "no", n_prepare |-> 0,
           answer |-> NoAnswer ]

\* Stations.model_post_init, no station files given
StationsConstruct ==
    /\ fm.at = "config"
    /\ fm' = [fm EXCEPT
           !.at = "constructed",
           !.stations = weed_stations(fm.stations, fm.stations, 1, {}),
           !.weeded = weed_stations(fm.stations, fm.stations, 1, {}) # fm.stations]
    /\ UNCHANGED notFm

\* Stations.blacklist_station(station, reason), raising or not
\* (observed in the state: weeded, whether the construction removed a
\* station, and outside, the stations the last prepare has blacklisted)
BlacklistStation ==
    /\ fm.at = "constructed"
    /\ fm.prepared = "no"
    /\ \E i \in DOMAIN fm.stations :
          fm' = [fm EXCEPT !.blacklist = @ \cup { fm.stations[i].nsl }]
    /\ UNCHANGED notFm

\* FastMarchingPhaseTracer.prepare(octree, stations) of a new tracer, on
\* the cache directory the runs before have left
FmPrepare ==
    /\ fm.at = "constructed"
    /\ fm.n_prepare < MaxPrepares
    /\ \E g \in FmGeometries :
          LET velocity_model == g
              outside == { sta.nsl : sta \in
                             { s \in Range(Iter(fm.stations, fm.blacklist)) :
                                 ~is_inside(velocity_model, s) } }
              blacklist == fm.blacklist \cup outside
              raises == outside # {} /\ n_stations(fm.stations, blacklist) = 0
              dir == VelocityModelHash(velocity_model)
              loaded == { v \in fm.cache : v.velocity_model_hash = dir }
              work == { sta \in Range(Iter(fm.stations, blacklist)) :
                          \A v \in loaded : v.station.nsl # sta.nsl }
              calculated == { Volume(velocity_model, sta) : sta \in work }
          IN  IF raises
              THEN fm' = [fm EXCEPT
                       !.blacklist = blacklist, !.model = velocity_model,
                       !.traveltime_models = {}, !.computed = {},
                       !.outside = outside, !.prepared = "ValueError", !.n_prepare = @ + 1,
                       !.answer = NoAnswer]
              ELSE fm' = [fm EXCEPT
                       !.blacklist = blacklist, !.model = velocity_model,
                       !.cache = @ \cup calculated,
                       !.traveltime_models =
                           { [ key |-> PyStr(v.station.nsl), volume |-> v,
                               origin |-> "cached" ] : v \in loaded }
                           \cup { [ key |-> PyStr(v.station.nsl), volume |-> v,
                                    origin |-> "new" ] : v \in calculated },
                       !.computed = { v.station.nsl : v \in calculated },
                       !.outside = outside, !.prepared = "ok", !.n_prepare = @ + 1,
                       !.answer = NoAnswer]
    /\ UNCHANGED notFm

Sources == { <<0, 0, 10>>, <<30, 0, 10>> }

Abs(x) == IF x < 0 THEN -x ELSE x

\* StationTravelTimeVolume.interpolate_travel_time(source): the volume of
\* the constant model, NaN outside its grid
interpolate_travel_time(volume, source) ==
    IF is_inside(volume, [ offset |-> source ])
    THEN Abs(source[1] - volume.station.offset[1])
             + Abs(source[2] - volume.station.offset[2])
             + Abs(source[3] - volume.station.offset[3])
    ELSE NaN

\* FastMarchingRayTracer.get_arrivals(phase, event_time, source, receivers)
\* for the receivers of a detection, the stations of the search:
\* get_travel_time looks for hash(receiver) among the keys
FmGetArrivals ==
    /\ fm.prepared = "ok"
    /\ \E event_time \in EventTimes, source \in Sources :
          LET receivers == Iter(fm.stations, fm.blacklist)
              Found(receiver) ==
                  { e \in fm.traveltime_models : e.key = PyHash(receiver) }
              traveltime(receiver) ==
                  interpolate_travel_time(
                      (CHOOSE e \in Found(receiver) : TRUE).volume, source)
          IN  fm' = [fm EXCEPT
                  !.answer =
                      IF \E i \in DOMAIN receivers : Found(receivers[i]) = {}
                      THEN [ call |-> "get_arrivals", raised |-> "KeyError",
                             event_time |-> event_time, source |-> source,
                             receivers |-> receivers, arrivals |-> <<>> ]
                      ELSE [ call |-> "get_arrivals", raised |-> "",
                             event_time |-> event_time, source |-> source,
                             receivers |-> receivers,
                             arrivals |->
                                 [ i \in DOMAIN receivers |->
                                     IF traveltime(receivers[i]) = NaN
                                     THEN NoArrival
                                     ELSE [ tracer |-> "FastMarchingArrival",
                                            phase |-> "fm:P",
                                            time |-> event_time
                                                + traveltime(receivers[i]) ] ] ] ]
    /\ UNCHANGED notFm

FmNext ==
    \/ StationsConstruct
    \/ BlacklistStation
    \/ FmPrepare
    \/ FmGetArrivals

(***************************************************************************)
(* lassie/images/__init__.py and lassie/tracers/__init__.py: the image     *)
(* functions and the ray tracers of a configuration, each with the phases  *)
(* it provides, from the loading of the configuration to the search.       *)
(***************************************************************************)
\* ImageFunction.get_provided_phases of the image functions one can list
ProvidedPhases == { <<"cake:P">>, <<"cake:S">>, <<"cake:P", "cake:S">> }

\* RayTracer.get_available_phases of the ray tracers one can list
AvailablePhases == { <<"cake:P", "cake:S">>, <<"cake:P">>, <<"fm:P">> }

ListsOf(S) == { <<a>> : a \in S } \cup { <<a, b>> : a \in S, b \in S }

RECURSIVE Chain(_, _)
\* chain.from_iterable over list[i], list[i+1], ...
Chain(list, i) ==
    IF i > Len(list) THEN <<>> ELSE list[i] \o Chain(list, i + 1)

\* ImageFunctions.get_phases
get_phases(image_functions) == Chain(image_functions, 1)

\* len(set(phases)) != len(phases)
ProvidedTwice(phases) == Cardinality(Range(phases)) # Len(phases)

\* ImageFunctions.model_post_init raises ValueError
PostInitRaises(image_functions) == ProvidedTwice(get_phases(image_functions))

ConfigInit ==
    \E image_functions \in ListsOf(ProvidedPhases),
       ray_tracers \in ListsOf(AvailablePhases) :
        config = [ image_functions |-> image_functions,
                   ray_tracers |-> ray_tracers,
                   at |-> "file", prepared |-> {}, tracer |-> 0 ]

ConfigIdle ==
    config = [ image_functions |-> << <<"cake:P">> >>,
               ray_tracers |-> << <<"cake:P">> >>,
               at |-> "file", prepared |-> {}, tracer |-> 0 ]

\* Search.from_config: the models are validated, ImageFunctions with its
\* model_post_init; RayTracers has no validator
ConfigLoad ==
    /\ config.at = "file"
    /\ config' = [config EXCEPT
           !.at = IF PostInitRaises(config.image_functions)
                  THEN "ValueError" ELSE "loaded"]
    /\ UNCHANGED notConfig

\* RayTracers.prepare(octree, stations, phases): the tracers that have one
\* of the phases of the image functions are prepared
ConfigPrepare ==
    /\ config.at = "loaded"
    /\ config' = [config EXCEPT
           !.at = "prepared",
           !.prepared = { i \in DOMAIN config.ray_tracers :
                            Range(config.ray_tracers[i])
                                \cap Range(get_phases(config.image_functions))
                                # {} }]
    /\ UNCHANGED notConfig

\* RayTracers.get_phase_tracer(image.phase) in SearchTraces.search: the
\* first tracer that has the phase; without one, ValueError, from the
\* message or from get_available_phases inside it
ConfigSearch ==
    /\ config.at \in { "prepared", "search" }
    /\ \E phase \in Range(get_phases(config.image_functions)) :
          LET having == { i \in DOMAIN config.ray_tracers :
                            phase \in Range(config.ray_tracers[i]) }
          IN  config' = [config EXCEPT
                  !.at = IF having = {} THEN "ValueError in search" ELSE "search",
                  !.tracer = IF having = {} THEN 0 ELSE MinOf(having)]
    /\ UNCHANGED notConfig

ConfigNext ==
    \/ ConfigLoad
    \/ ConfigPrepare
    \/ ConfigSearch

(***************************************************************************)
(* src/qseek/search.py, new_detections: one task per detection of a batch  *)
(* runs add_magnitude_and_features, the extractors under the semaphore     *)
(* _feature_semaphore.  A task is "new" before its first step, "waiting"   *)
(* in the semaphore's queue, "extracting" inside the semaphore and         *)
(* "returned" at the end; ran counts the extractors it has run.            *)
(***************************************************************************)
\* asyncio.Semaphore(8)
feature_semaphore == 8

\* self.magnitudes followed by self.features
Extractors == <<"magnitude", "feature">>

\* the in_bounds flags of the detections of a batch: 2 or MaxDetections in
\* bounds, and in some batches a second one that is out of bounds
DetectionBatches ==
    { [d \in 1..(IF out = 0 THEN n ELSE n + 1) |-> d # out] :
        n \in { 2, MaxDetections }, out \in { 0, 2 } }

ExtractInit ==
    \E in_bounds \in DetectionBatches, has_squirrel \in BOOLEAN :
        extract = [ detections |-> in_bounds,
                    squirrel |-> has_squirrel,
                    task |-> [d \in DOMAIN in_bounds |-> "new"],
                    ran |-> [d \in DOMAIN in_bounds |-> 0],
                    value |-> feature_semaphore,
                    waiters |-> <<>> ]

ExtractIdle ==
    extract = [ detections |-> <<>>, squirrel |-> TRUE, task |-> <<>>,
                ran |-> <<>>, value |-> feature_semaphore, waiters |-> <<>> ]

\* the tasks inside `async with self._feature_semaphore`
Extracting(e) == { d \in DOMAIN e.task : e.task[d] = "extracting" }

\* a semaphore that admits one task more
AcquiresAtZero(e) == e.value >= 0 /\ e.waiters = <<>>

\* Semaphore.acquire without waiting: not self.locked()
Acquires(e) == e.value > 0 /\ e.waiters = <<>>

\* the record after task d has entered the semaphore
Entered(e, d) == [e EXCEPT !.task[d] = "extracting", !.value = @ - 1]

\* The first step of add_magnitude_and_features(event), in the order of the
\* gather: the two early returns, then the semaphore, taken or waited for.
ExtractStart(d) ==
    /\ extract.task[d] = "new"
    /\ \A c \in 1..(d - 1) : extract.task[c] # "new"
    /\ extract' =
         IF ~extract.detections[d] \/ ~extract.squirrel
         THEN [extract EXCEPT !.task[d] = "returned"]
         ELSE IF Acquires(extract)
         THEN Entered(extract, d)
         ELSE [extract EXCEPT !.task[d] = "waiting",
                              !.waiters = Append(@, d)]
    /\ UNCHANGED notExtract

\* The first waiter is woken after a release and takes the semaphore.
ExtractWake(d) ==
    /\ extract.waiters # <<>>
    /\ d = Head(extract.waiters)
    /\ extract.value > 0
    /\ extract' = Entered([extract EXCEPT !.waiters = Tail(@)], d)
    /\ UNCHANGED notExtract

\* await add_magnitude / add_features of the next extractor returns; after
\* the last one the semaphore is released and the task returns.
ExtractRun(d) ==
    /\ extract.task[d] = "extracting"
    /\ extract' =
         IF extract.ran[d] + 1 < Len(Extractors)
         THEN [extract EXCEPT !.ran[d] = @ + 1]
         ELSE [extract EXCEPT !.ran[d] = @ + 1,
                              !.task[d] = "returned",
                              !.value = @ + 1]
    /\ UNCHANGED notExtract

ExtractNext ==
    \/ \E d \in DOMAIN extract.detections : ExtractStart(d)
    \/ \E d \in DOMAIN extract.detections : ExtractWake(d)
    \/ \E d \in DOMAIN extract.detections : ExtractRun(d)

(***************************************************************************)
(* Search.init_rundir (src/qseek/search.py, lassie/search/base.py): the    *)
(* directory at the path rundir and the backups beside it.  A directory is *)
(* written with its config (the number of the search that wrote it), the   *)
(* progress files written into it and its st_ctime, the time of the last   *)
(* change of its entries on a clock that ticks with every change.          *)
(* project_dir is Path("."), its default.                                  *)
(***************************************************************************)
\* self._config_stem: the stem of the file given to from_config, or the
\* default of a Search that was not made by from_config
ConfigStems == { "config", "" }

\* self.project_dir / self._config_stem or f"run-{...}": the division binds
\* tighter than `or` and a Path is never false, so this is the path
\* project_dir / stem, which is project_dir itself for the empty stem;
\* rundir.name is its last component, empty for Path(".")
RundirName(stem) == stem

\* no directory at the path
Absent == [exists |-> FALSE, config |-> 0, progress |-> 0, ctime |-> 0]

\* time_to_path(datetime): the time written as one path component
time_to_path(t) == <<"time", t>>

\* rundir.with_name(f"{rundir.name}.bak-{create_time}")
rundir_backup(name, dir) == <<name, ".bak-", time_to_path(dir.ctime)>>

NoCall ==
    [call |-> "none", force |-> FALSE, result |-> "none", ops |-> <<>>,
     rundir |-> Absent, backups |-> {}]

DiskInit ==
    \E n_progress \in 0..1, exists \in BOOLEAN, stem \in ConfigStems :
        disk = [ stem |-> stem,
                 rundir |-> IF exists \/ stem = ""
                            THEN [exists |-> TRUE, config |-> 0,
                                  progress |-> n_progress, ctime |-> 0]
                            ELSE Absent,
                 backups |-> {},
                 clock |-> 1,
                 searches |-> 0,
                 running |-> FALSE,
                 last |-> NoCall ]

DiskIdle ==
    disk = [ stem |-> "config", rundir |-> Absent, backups |-> {},
             clock |-> 1, searches |-> 0, running |-> FALSE, last |-> NoCall ]

\* The directory is kept where it is.
RenameNot(d) == d

\* rundir.with_name(...) raises ValueError for a path with an empty name;
\* rundir.rename(rundir_backup) raises OSError onto a directory with entries
Rename(d) ==
    IF RundirName(d.stem) = ""
    THEN [d EXCEPT !.last.result = "ValueError"]
    ELSE IF \E b \in d.backups :
                b.name = rundir_backup(RundirName(d.stem), d.rundir)
    THEN [d EXCEPT !.last.result = "OSError"]
    ELSE [d EXCEPT !.backups =
                       @ \cup { [name |-> rundir_backup(RundirName(d.stem),
                                                        d.rundir),
                                 dir |-> d.rundir] },
                   !.rundir = Absent,
                   !.clock = @ + 1,
                   !.last.ops = Append(@, "rename")]

\* if not rundir.exists(): rundir.mkdir()
Mkdir(d) ==
    IF d.rundir.exists THEN d
    ELSE [d EXCEPT !.rundir = [exists |-> TRUE, config |-> 0, progress |-> 0,
                               ctime |-> d.clock],
                   !.clock = @ + 1,
                   !.last.ops = Append(@, "mkdir")]

\* self.write_config(), with the stations and the log file beside it
WriteConfig(d) ==
    [d EXCEPT !.rundir.config = d.searches,
              !.rundir.ctime = d.clock,
              !.clock = @ + 1,
              !.running = TRUE,
              !.last.result = "ok",
              !.last.ops = Append(@, "write_config")]

\* Search.init_rundir(force) of a new search
DiskInitRundir(force) ==
    /\ disk.searches < MaxSearches
    /\ LET called == [disk EXCEPT
                         !.searches = @ + 1,
                         !.running = FALSE,
                         !.last = [call |-> "init_rundir", force |-> force,
                                   result |-> "none", ops |-> <<>>,
                                   rundir |-> disk.rundir,
                                   backups |-> disk.backups]]
           renamed == IF called.rundir.exists /\ force
                      THEN Rename(called) ELSE called
       IN  disk' =
             IF called.rundir.exists /\ ~force
             THEN [called EXCEPT !.last.result = "FileExistsError"]
             ELSE IF renamed.last.result # "none"
             THEN renamed
             ELSE WriteConfig(Mkdir(renamed))
    /\ UNCHANGED notDisk

\* Search.set_progress(time) of the search that has the run directory, in
\* the loop of Search.start: progress_file.write_text(...) writes the file,
\* or raises OSError, which nothing between it and the caller of start
\* catches: the run ends.
DiskSetProgress(written) ==
    /\ disk.running
    /\ disk.rundir.progress < MaxProgress
    /\ disk' =
         IF written
         THEN [disk EXCEPT !.rundir.progress = @ + 1,
                           !.rundir.ctime = disk.clock,
                           !.clock = @ + 1,
                           !.last = [NoCall EXCEPT !.call = "set_progress",
                                                   !.result = "ok",
                                                   !.ops = <<"write_text">>]]
         ELSE [disk EXCEPT !.running = FALSE,
                           !.last = [NoCall EXCEPT !.call = "set_progress",
                                                   !.result = "OSError",
                                                   !.ops = <<"write_text">>]]
    /\ UNCHANGED notDisk

DiskNext ==
    \/ \E force \in BOOLEAN : DiskInitRundir(force)
    \/ \E written \in BOOLEAN : DiskSetProgress(written)

(***************************************************************************)
(* DetectionUncertainty.from_event (src/qseek/models/detection_uncertainty *)
(* .py) on the octree heap, with Octree.get_nodes.  The source node is a   *)
(* leaf of the octree, as it is at the call in SearchTraces.search         *)
(* (octree[node_idx]).  Semblances are small integers; the width           *)
(* 1/sqrt(e) = 0.60653... is the ratio THRESHOLD_E5 / 100000, which        *)
(* orders every pair of them as the float does.                            *)
(***************************************************************************)
THRESHOLD_E5 == 60653

\* Semblance vectors with the values 0..3, in turn from `off`.
SemblanceRamp(n, off) == [i \in 1..n |-> (i + off) % 4]

\* A wrong selection: every leaf, whatever the threshold.
get_nodes_all(h, lv, threshold_e5) == lv

\* Octree.get_nodes(semblance_threshold) over the leaves lv of heap h; the
\* threshold is given times 100000
get_nodes(h, lv, threshold_e5) ==
    IF threshold_e5 = 0 THEN lv
    ELSE SelectSeq(lv, LAMBDA n : h[n].semblance * 100000 >= threshold_e5)

\* (node.east, node.north, node.depth)
Coords(nd) == <<nd.east, nd.north, nd.depth>>

\* DetectionUncertainty.from_event(source_node, octree): the answer, or
\* ValueError for a source node without semblance (np.min raises it as
\* well for no node at all)
from_event(h, lv, source) ==
    LET vicinity == get_nodes(h, lv, h[source].semblance * THRESHOLD_E5)
        offsets(axis) ==
            { Coords(h[vicinity[i]])[axis] - Coords(h[source])[axis] :
                i \in DOMAIN vicinity }
    IN  IF h[source].semblance = 0 \/ vicinity = <<>>
        THEN [ raised |-> TRUE, uncertainty |-> <<>> ]
        ELSE [ raised |-> FALSE,
               uncertainty |-> [ axis \in 1..3 |->
                                   << MinOf(offsets(axis)),
                                      MaxOf(offsets(axis)) >> ] ]

\* map_semblance of a column of the semblance matrix
DoMapColumn ==
    \E t \in DOMAIN trees : \E off \in 0..3 :
        /\ OctreeTick
        /\ MapSemblance(t, SemblanceRamp(Len(Leaves(t)), off))

\* from_event(source_node=octree[node_idx], octree=octree)
DoFromEvent ==
    \E t \in DOMAIN trees : \E node_idx \in DOMAIN Leaves(t) :
        LET source == Leaves(t)[node_idx]
            r == from_event(nodes, Leaves(t), source)
        IN  /\ OctreeTick
            /\ lastOp' = Op("from_event", t, source, r.raised, r.uncertainty,
                            Leaves(t))
            /\ UNCHANGED <<cfg, nodes, trees, firstChildren>>

UncertaintyNext ==
    \/ DoNodeSplit
    \/ DoMapColumn
    \/ DoFromEvent

(***************************************************************************)
(* The sample counts of a frame (src/qseek/search.py, SearchTraces).       *)
(* Times are in milliseconds and the sampling rate in Hz, so a time t has  *)
(* t * sampling_rate / 1000 samples, a ratio that is rounded as Python's   *)
(* round does it, a tie to the even integer.                               *)
(***************************************************************************)
\* SamplingRate = Literal[10, 20, 25, 50, 100]
SamplingRates == { 10, 20, 25, 50, 100 }

\* parent._window_padding, the sum of a travel-time range and the blindings
WindowPaddings == { 0, 1000, 1004, 1020, 1025, 1030, 1050, 1060 }

\* the windows [start_time, end_time) of the batches
SampleWindows ==
    { <<start, start + length>> :
        start \in { 0, 5000 }, length \in { 4990, 5000, 5030 } }

\* round(num / den) for den > 0 and num >= 0
Round(num, den) ==
    LET q == num \div den
        twice == 2 * (num % den)
    IN  IF twice < den THEN q
        ELSE IF twice > den THEN q + 1
        ELSE IF q % 2 = 0 THEN q ELSE q + 1

\* SearchTraces._n_samples_semblance
n_samples_semblance(window, padding, sampling_rate) ==
    LET time_span == (window[2] + padding) - (window[1] - padding)
    IN  Round(time_span * sampling_rate, 1000)

\* SearchTraces.search: padding_samples
padding_samples(padding, sampling_rate) ==
    Round(padding * sampling_rate, 1000)

\* Semblance: the samples between the paddings
n_samples_unpadded(n_samples, n_padding) == n_samples - 2 * n_padding

NoSamples == [n_samples |-> 0, padding_samples |-> 0, unpadded |-> 0]

SamplesInit ==
    \E window \in SampleWindows, padding \in WindowPaddings,
       sampling_rate \in SamplingRates :
        samples = [ window |-> window,
                    window_padding |-> padding,
                    sampling_rate |-> sampling_rate,
                    made |-> FALSE,
                    semblance |-> NoSamples ]

SamplesIdle ==
    samples = [ window |-> <<0, 5000>>, window_padding |-> 0,
                sampling_rate |-> 100, made |-> FALSE, semblance |-> NoSamples ]

\* SearchTraces.search: semblance = Semblance(nodes=octree, n_samples=...,
\* padding_samples=...)
SamplesSemblance ==
    /\ ~samples.made
    /\ LET n == n_samples_semblance(samples.window, samples.window_padding,
                                    samples.sampling_rate)
           p == padding_samples(samples.window_padding, samples.sampling_rate)
       IN  samples' = [samples EXCEPT
               !.made = TRUE,
               !.semblance = [n_samples |-> n, padding_samples |-> p,
                              unpadded |-> n_samples_unpadded(n, p)]]
    /\ UNCHANGED notSamples

(***************************************************************************)
(* The semblance cache of a frame (src/qseek/search.py,                    *)
(* SearchTraces.search and calculate_semblance).                           *)
(*                                                                         *)
(* A node is known by its key, the path from its root node: the hash of a  *)
(* node is made of its place and size.  A row of the semblance is one      *)
(* number, with the window and the refinement level it was stacked in.     *)
(* An image has a weight and a number of stations; all travel times are    *)
(* good, so the weight of a station is the image weight divided by the     *)
(* number of stations.                                                     *)
(***************************************************************************)
Images == << [weight |-> 2, n_stations |-> 2], [weight |-> 4, n_stations |-> 2] >>

\* images.cumulative_weight()
cumulative_weight == Images[1].weight + Images[2].weight

\* the root nodes after parent.octree.reset()
RootKeys == << <<1>>, <<2>> >>

\* Node.split: the children of a node
ChildKeys(key) == [ i \in 1..8 |-> Append(key, i) ]

\* Node.can_split
CanSplitKey(key) == Len(key) <= MaxDepth

\* What the traces of a window stack to for a node, per unit of weight.
Amplitude(window, key) == window + Len(key) + key[Len(key)]

\* semblance_cache = None
NoSemblanceCache == [ none |-> TRUE, rows |-> {} ]

\* if semblance_cache: a dict that is not None and not empty
Truthy(c) == ~c.none /\ c.rows # {}

\* semblance_cache or {}
OrEmpty(c) == IF c.none THEN {} ELSE c.rows

Keys(rows) == { r.key : r \in rows }

CachedRow(rows, key) == CHOOSE r \in rows : r.key = key

\* Semblance.get_cache_mask: the leaves whose key is in the cache
get_cache_mask(leaves, rows) == [ i \in DOMAIN leaves |-> leaves[i] \in Keys(rows) ]

\* calculate_semblance: weights = image.weight / station_contribution, and
\* weights[cache_mask] = 0.0 if there is a cache
StationWeights(image, leaves, c) ==
    [ i \in DOMAIN leaves |->
        [ st \in 1..image.n_stations |->
            IF Truthy(c) /\ get_cache_mask(leaves, c.rows)[i]
            THEN 0
            ELSE image.weight \div image.n_stations ] ]

RECURSIVE SumSeq(_, _)
SumSeq(s, i) == IF i > Len(s) THEN 0 ELSE s[i] + SumSeq(s, i + 1)

\* Semblance.calculate_semblance: the weighted traces are added to the rows
Stacked(rows, leaves, weights, window) ==
    [ i \in DOMAIN rows |->
        [rows[i] EXCEPT !.value = @ + SumSeq(weights[i], 1) * Amplitude(window, leaves[i])] ]

\* Semblance.normalize
Normalized(rows, by) ==
    [ i \in DOMAIN rows |-> [rows[i] EXCEPT !.value = @ \div by] ]

\* Semblance.apply_cache: the cached rows are written over the rows of
\* their leaves
apply_cache(rows, leaves, cached) ==
    [ i \in DOMAIN rows |->
        IF leaves[i] \in Keys(cached)
        THEN LET r == CachedRow(cached, leaves[i])
             IN  [value |-> r.value, window |-> r.window, level |-> r.level]
        ELSE rows[i] ]

\* The rows written back before the division by the cumulative weight.
NormalizedAfterCache(rows, leaves, cached, by) ==
    Normalized(apply_cache(rows, leaves, cached), by)

\* semblance.normalize(...); semblance.apply_cache(semblance_cache or {})
NormalizedThenCache(rows, leaves, cached, by) ==
    apply_cache(Normalized(rows, by), leaves, cached)

\* Semblance.get_cache: the rows of the semblance by the key of their node
get_cache(rows, leaves) ==
    { [key |-> leaves[i], value |-> rows[i].value, window |-> rows[i].window,
       level |-> rows[i].level] : i \in DOMAIN leaves }

\* A cache that keeps the rows of all levels before.
CacheOfAllLevels(old, snapshot) ==
    [ none |-> FALSE,
      rows |-> snapshot \cup { r \in OrEmpty(old) : r.key \notin Keys(snapshot) } ]

\* return await self.search(octree, semblance_cache=cache)
CacheOfRecursion(old, snapshot) == [ none |-> FALSE, rows |-> snapshot ]

\* octree after node.split() of the leaves at the places in S
RECURSIVE SplitLeaves(_, _, _)
SplitLeaves(leaves, S, i) ==
    IF i > Len(leaves) THEN <<>>
    ELSE (IF i \in S /\ CanSplitKey(leaves[i]) THEN ChildKeys(leaves[i])
          ELSE <<leaves[i]>>) \o SplitLeaves(leaves, S, i + 1)

NoSearch ==
    [ at |-> "idle", window |-> 0, level |-> 0, leaves |-> <<>>,
      semblance_cache |-> NoSemblanceCache, semblance |-> <<>>,
      weights |-> <<>>, snapshot |-> {} ]

SemInit == sem = [ call |-> NoSearch, n_frames |-> 0 ]

SemIdle == SemInit

\* search(octree, semblance_cache) up to the first image: the Semblance of
\* the call is made, its rows are zero
Called(window, level, leaves, c, snapshot) ==
    [ at |-> "stack", window |-> window, level |-> level, leaves |-> leaves,
      semblance_cache |-> c,
      semblance |-> [ i \in DOMAIN leaves |->
                        [value |-> 0, window |-> window, level |-> level] ],
      weights |-> <<>>, snapshot |-> snapshot ]

\* Search.start: search_block.search() for the next window
SemSearch ==
    /\ sem.call.at = "idle"
    /\ sem.n_frames < MaxFrames
    /\ sem' = [sem EXCEPT
          !.call = Called(sem.n_frames + 1, 0, RootKeys, NoSemblanceCache, {})]
    /\ UNCHANGED notSem

\* await self.calculate_semblance(...) for the next image
SemStack ==
    /\ sem.call.at = "stack"
    /\ Len(sem.call.weights) < Len(Images)
    /\ LET c == sem.call
           image == Images[Len(c.weights) + 1]
           weights == StationWeights(image, c.leaves, c.semblance_cache)
       IN  sem' = [sem EXCEPT
               !.call.weights = Append(@, weights),
               !.call.semblance = Stacked(@, c.leaves, weights, c.window)]
    /\ UNCHANGED notSem

\* apply_exponent with image_mean_p = 1, normalize, apply_cache, and the
\* call of find_peaks
SemFindPeaks ==
    /\ sem.call.at = "stack"
    /\ Len(sem.call.weights) = Len(Images)
    /\ LET c == sem.call
       IN  sem' = [sem EXCEPT
               !.call.at = "peaks",
               !.call.semblance =
                   NormalizedThenCache(@, c.leaves, OrEmpty(c.semblance_cache),
                                       cumulative_weight)]
    /\ UNCHANGED notSem

\* no peak, or no node to refine: search returns
SemReturn ==
    /\ sem.call.at = "peaks"
    /\ sem' = [ call |-> NoSearch, n_frames |-> sem.n_frames + 1 ]
    /\ UNCHANGED notSem

\* refine_nodes is not empty: the nodes that can be split are split, the
\* cache is taken from the semblance and search calls itself
SemRefine(S) ==
    /\ sem.call.at = "peaks"
    /\ sem.call.level < MaxLevel
    /\ \E i \in S : CanSplitKey(sem.call.leaves[i])
    /\ LET c == sem.call
           snapshot == get_cache(c.semblance, c.leaves)
       IN  sem' = [sem EXCEPT
               !.call = Called(c.window, c.level + 1,
                               SplitLeaves(c.leaves, S, 1),
                               CacheOfRecursion(c.semblance_cache, snapshot),
                               snapshot)]
    /\ UNCHANGED notSem

\* The sets of places of leaves that refine_nodes holds in the model.
RefineSets(leaves) ==
    { S \in SUBSET { i \in DOMAIN leaves : i <= MaxTargets + 1 } : S # {} }

DoSemRefine == \E S \in RefineSets(sem.call.leaves) : SemRefine(S)

SemNext ==
    \/ SemSearch
    \/ SemStack
    \/ SemFindPeaks
    \/ SemReturn
    \/ DoSemRefine

(***************************************************************************)
(* The refinement of a frame (src/qseek/search.py, SearchTraces.search     *)
(* after find_peaks) on the octree heap.  The octree of the frame is       *)
(* tree 1.  A peak is the time slice of the semblance at its time index,   *)
(* one value per leaf; the peak value is the largest value of the slice    *)
(* and the source node is the first leaf that has it.                      *)
(***************************************************************************)
\* node_split_threshold (gt 0, lt 1) in tenths
NodeSplitThresholds == { 5, 9 }

\* The time slices of the model for n leaves: one leaf with the largest
\* value, the same value on all others.
Slice(n, hot, rest) == [ i \in 1..n |-> IF i = hot THEN 10 ELSE rest ]

Slices(n) == { Slice(n, hot, rest) : hot \in { 1, n }, rest \in { 0, 5, 9 } }

\* The peaks of a call: none, one or two.
PeakSlices(n) ==
    { <<>> } \cup { <<s>> : s \in Slices(n) }
             \cup { <<s1, s2>> : s1 \in Slices(n), s2 \in Slices(n) }

\* A node that can always be split.
can_split_always(nd) == TRUE

\* Node.can_split
can_split(nd) == nd.size \div 2 >= cfg.size_limit

\* maxima_node_idx[time_idx]: the first leaf with the largest value
ArgMax(slice) ==
    CHOOSE i \in DOMAIN slice :
        /\ \A j \in DOMAIN slice : slice[j] <= slice[i]
        /\ \A j \in DOMAIN slice : j < i => slice[j] < slice[i]

\* octree.get_nodes(semblance_detection * parent.node_split_threshold) after
\* octree.map_semblance(slice): the leaves at or above the threshold
SplitNodes(lv, slice, threshold) ==
    IF slice[ArgMax(slice)] * threshold = 0 THEN Range(lv)
    ELSE { lv[i] : i \in { j \in DOMAIN lv :
                            slice[j] * 10 >= slice[ArgMax(slice)] * threshold } }

\* The loop over the peaks: refine_nodes
RECURSIVE RefineNodes(_, _, _, _)
RefineNodes(lv, peaks, threshold, p) ==
    IF p > Len(peaks) THEN {}
    ELSE (IF can_split(nodes[lv[ArgMax(peaks[p])]])
          THEN SplitNodes(lv, peaks[p], threshold)
          ELSE {})
         \cup RefineNodes(lv, peaks, threshold, p + 1)

\* node.split() on the heap s = [nodes, trees, firstChildren]; a
\* NodeSplitError leaves the heap as it is
SplitOnHeap(s, n) ==
    LET nd == s.nodes[n]
    IN  IF SplitRefused(nd) THEN s
        ELSE LET fresh == nd.children_cached = <<>>
                 kids == IF fresh
                         THEN [ i \in 1..8 |-> Len(s.nodes) + i ]
                         ELSE nd.children_cached
                 heap == IF fresh THEN s.nodes \o ChildNodes(nd) ELSE s.nodes
                 fc == IF fresh
                       THEN s.firstChildren \o [ i \in 1..8 |-> <<>> ]
                       ELSE s.firstChildren
             IN  [ nodes |-> [heap EXCEPT ![n].children_cached = kids,
                                          ![n].children = kids],
                   trees |-> ClearCache(s.trees, nd.tree),
                   firstChildren |->
                       IF fc[n] = <<>> THEN [fc EXCEPT ![n] = kids] ELSE fc ]

\* for node in refine_nodes: try: node.split() except NodeSplitError: continue
RECURSIVE SplitAll(_, _)
SplitAll(s, S) ==
    IF S = {} THEN s
    ELSE LET n == CHOOSE x \in S : \A y \in S : x <= y
         IN  SplitAll(SplitOnHeap(s, n), S \ {n})

\* the semblance of the last peak stays on the leaves
MappedLast(h, lv, peaks) ==
    IF peaks = <<>> THEN h
    ELSE AssignSemblance(h, lv, peaks[Len(peaks)], 1, Len(lv))

RefineInit ==
    \E threshold \in NodeSplitThresholds :
        refine = [ at |-> "search", level |-> 0, threshold |-> threshold,
                   peaks |-> <<>>, leaves_before |-> <<>>, attempted |-> {},
                   recursed |-> FALSE, detections |-> 0 ]

RefineIdle ==
    refine = [ at |-> "idle", level |-> 0, threshold |-> 9,
               peaks |-> <<>>, leaves_before |-> <<>>, attempted |-> {},
               recursed |-> FALSE, detections |-> 0 ]

\* One call of search from its peaks on: the nodes to refine are collected
\* and split and search calls itself, or the detections are made and
\* search returns.
RefineSearch(peaks) ==
    /\ refine.at = "search"
    /\ LET lv == Leaves(Template)
           refine_nodes == RefineNodes(lv, peaks, refine.threshold, 1)
           mapped == MappedLast(nodes, lv, peaks)
           s == SplitAll([nodes |-> mapped, trees |-> trees,
                          firstChildren |-> firstChildren], refine_nodes)
       IN  IF refine_nodes # {}
           THEN /\ Len(s.nodes) <= MaxNodes
                /\ nodes' = s.nodes
                /\ trees' = s.trees
                /\ firstChildren' = s.firstChildren
                /\ refine' = [refine EXCEPT !.level = @ + 1, !.peaks = peaks,
                                            !.leaves_before = lv,
                                            !.attempted = refine_nodes,
                                            !.recursed = TRUE]
           ELSE /\ nodes' = mapped
                /\ UNCHANGED <<trees, firstChildren>>
                /\ refine' = [refine EXCEPT !.at = "returned", !.peaks = peaks,
                                            !.leaves_before = lv,
                                            !.attempted = {},
                                            !.recursed = FALSE,
                                            !.detections = Len(peaks)]
    /\ UNCHANGED <<cfg, lastOp, nOps, notOctreeNorRefine>>

RefineNext == \E peaks \in PeakSlices(Len(Leaves(Template))) : RefineSearch(peaks)

(***************************************************************************)
(* SearchTraces.calculate_semblance up to the stacking: the shifts and     *)
(* the weights of an image (src/qseek/search.py and                        *)
(* lassie/search/base.py, which has no cache).  A travel time is NaN or a  *)
(* number of half samples; a weight is a ratio [num, den], infinite with   *)
(* den = 0.                                                                *)
(***************************************************************************)
\* half samples in image.delta_t
HalfSamples == { 2 }

TravelTimeValues == { NaN, 3, 4 }

ImageStations == 1..3

\* ray_tracer.get_travel_times(image.phase, octree, image.stations) for
\* the two root nodes
TravelTimeTables == [ DOMAIN RootKeys -> [ ImageStations -> TravelTimeValues ] ]

ImageWeights == { 1, 2 }

\* the semblance_cache of the call: None, empty, or with the first root node
WtsCaches ==
    { NoSemblanceCache,
      [ none |-> FALSE, rows |-> {} ],
      [ none |-> FALSE,
        rows |-> { [key |-> RootKeys[1], value |-> 1, window |-> 1, level |-> 0] } ] }

\* traveltimes_bad = np.isnan(traveltimes)
traveltimes_bad(traveltimes) ==
    [ i \in DOMAIN traveltimes |->
        [ st \in DOMAIN traveltimes[i] |-> traveltimes[i][st] = NaN ] ]

\* The number of all stations.
station_count(bad) == [ i \in DOMAIN bad |-> Cardinality(DOMAIN bad[i]) ]

\* station_contribution = (~traveltimes_bad).sum(axis=1)
station_contribution(bad) ==
    [ i \in DOMAIN bad |-> Cardinality({ st \in DOMAIN bad[i] : ~bad[i][st] }) ]

\* np.round(-traveltimes / image.delta_t) after traveltimes[bad] = 0.0
Shifts(traveltimes, bad, delta_t) ==
    [ i \in DOMAIN traveltimes |->
        [ st \in DOMAIN traveltimes[i] |->
            IF bad[i][st] THEN 0 ELSE 0 - Round(traveltimes[i][st], delta_t) ] ]

Zero == [ num |-> 0, den |-> 1 ]

\* weights = full_like(shifts, image.weight); weights /= station_contribution;
\* weights[traveltimes_bad] = 0.0; weights[cache_mask] = 0.0 with a cache
Weights(bad, image_weight, c) ==
    LET filled == [ i \in DOMAIN bad |->
                      [ st \in DOMAIN bad[i] |-> [num |-> image_weight, den |-> 1] ] ]
        contribution == station_contribution(bad)
        divided == [ i \in DOMAIN bad |->
                       [ st \in DOMAIN bad[i] |->
                           [filled[i][st] EXCEPT !.den = @ * contribution[i]] ] ]
        good == [ i \in DOMAIN bad |->
                    [ st \in DOMAIN bad[i] |->
                        IF bad[i][st] THEN Zero ELSE divided[i][st] ] ]
    IN  IF Truthy(c)
        THEN LET cache_mask == get_cache_mask(RootKeys, c.rows)
             IN  [ i \in DOMAIN bad |->
                     IF cache_mask[i] THEN [ st \in DOMAIN bad[i] |-> Zero ]
                     ELSE good[i] ]
        ELSE good

WtsInit ==
    \E traveltimes \in TravelTimeTables, image_weight \in ImageWeights,
       c \in WtsCaches, delta_t \in HalfSamples :
        wts = [ traveltimes |-> traveltimes, image_weight |-> image_weight,
                semblance_cache |-> c, delta_t |-> delta_t, made |-> FALSE,
                shifts |-> <<>>, weights |-> <<>> ]

WtsIdle ==
    wts = [ traveltimes |-> [ i \in DOMAIN RootKeys |-> [ st \in ImageStations |-> 4 ] ],
            image_weight |-> 1, semblance_cache |-> NoSemblanceCache,
            delta_t |-> 2, made |-> FALSE, shifts |-> <<>>, weights |-> <<>> ]

\* calculate_semblance up to the call of semblance.calculate_semblance
WtsCalculate ==
    /\ ~wts.made
    /\ LET bad == traveltimes_bad(wts.traveltimes)
       IN  wts' = [wts EXCEPT
               !.made = TRUE,
               !.shifts = Shifts(wts.traveltimes, bad, wts.delta_t),
               !.weights = Weights(bad, wts.image_weight, wts.semblance_cache)]
    /\ UNCHANGED notWts

(***************************************************************************)
(* Search.new_detections (src/qseek/search.py) on a store that grows past  *)
(* a hundred detections.  The detections of a call are counted, not kept.  *)
(***************************************************************************)
ExportEvery == 100  \* n_detections % 100 == 0

\* the detections of one call of new_detections
DetectionCounts == 1..3

NoNewDetections == [ before |-> 0, added |-> 0, exported |-> FALSE ]

ExporterInit ==
    exporter = [ n_detections |-> 0, exports |-> 0, last |-> NoNewDetections ]

ExporterIdle == ExporterInit

\* new_detections(detections): every detection is added to the store and
\* emitted, then the store is exported if it holds a multiple of a hundred
NewDetections(n) ==
    /\ exporter.n_detections < ExportEvery + MaxDetections
    /\ LET n_detections == exporter.n_detections + n
           export == n_detections # 0 /\ n_detections % ExportEvery = 0
       IN  exporter' = [ n_detections |-> n_detections,
                         exports |-> exporter.exports + (IF export THEN 1 ELSE 0),
                         last |-> [ before |-> exporter.n_detections,
                                    added |-> n, exported |-> export ] ]
    /\ UNCHANGED notExporter

ExporterNext == \E n \in DetectionCounts : NewDetections(n)

(***************************************************************************)
(* StationWeights (src/qseek/station_weights.py): the node LUT is an LRU   *)
(* cache of station distances keyed by node hash.  The leaves of the       *)
(* octree are the keys 1..n_nodes in iteration order; key 0 is a node that *)
(* is no longer in the octree.  The cache is a sequence, the most recently *)
(* used key first.                                                         *)
(***************************************************************************)
MaxLeaves == 3

\* int(lut_cache_size / bytes_per_node), in entries
LutSizes == 1..3

\* the depth at which the interpreter refuses a further call
RecursionLimit == 3

Without(cache, key) == SelectSeq(cache, LAMBDA c : c # key)

Has(cache, key) == \E i \in DOMAIN cache : cache[i] = key

First(cache, size) ==
    IF Len(cache) <= size THEN cache ELSE SubSeq(cache, 1, size)

\* _node_lut[key]: a hit makes the key the most recently used
LruGet(cache, key) == <<key>> \o Without(cache, key)

\* _node_lut[key] = value: the least recently used entries make room
LruSet(cache, key, size) == First(<<key>> \o Without(cache, key), size)

\* fill_lut(nodes): the distances of every node are stored, in order
RECURSIVE fill_lut(_, _, _)
fill_lut(cache, fill, size) ==
    IF fill = <<>> THEN cache
    ELSE fill_lut(LruSet(cache, Head(fill), size), Tail(fill), size)

\* the loop of get_weights over the leaves idx..n: a hit writes the
\* row of the leaf, a miss appends the leaf to fill_nodes
RECURSIVE LookUp(_, _, _, _)
LookUp(cache, idx, n, fill_nodes) ==
    IF idx > n THEN [ cache |-> cache, fill_nodes |-> fill_nodes ]
    ELSE IF Has(cache, idx)
         THEN LookUp(LruGet(cache, idx), idx + 1, n, fill_nodes)
         ELSE LookUp(cache, idx + 1, n, Append(fill_nodes, idx))

LutCaches(size) ==
    { c \in UNION { [1..l -> 0..MaxLeaves] : l \in 0..size } :
        \A i, j \in DOMAIN c : i # j => c[i] # c[j] }

LutInit ==
    \E n \in 1..MaxLeaves, size \in LutSizes :
        \E cache \in LutCaches(size) :
            lut = [ n_nodes |-> n, size |-> size, cache |-> cache,
                    depth |-> 0, at |-> "call", rows |-> {} ]

LutIdle ==
    lut = [ n_nodes |-> 1, size |-> 1, cache |-> <<>>, depth |-> 0,
            at |-> "returned", rows |-> {} ]

\* one call of get_weights(octree, stations), the call of the caller or
\* the one it makes of itself after fill_lut(fill_nodes)
GetWeights ==
    /\ lut.at = "call"
    /\ LET looked == LookUp(lut.cache, 1, lut.n_nodes, <<>>)
           hits == { idx \in 1..lut.n_nodes : Has(lut.cache, idx) }
       IN  IF looked.fill_nodes = <<>>
           THEN lut' = [lut EXCEPT !.cache = looked.cache,
                                   !.rows = hits, !.at = "returned"]
           ELSE lut' = [lut EXCEPT
                    !.cache = fill_lut(looked.cache, looked.fill_nodes,
                                       lut.size),
                    !.depth = lut.depth + 1,
                    !.at = IF lut.depth + 1 >= RecursionLimit
                           THEN "RecursionError" ELSE "call"]
    /\ UNCHANGED notLut

(***************************************************************************)
(* PeakAmplitudeStoreCache.clean_cache                                     *)
(* (src/qseek/magnitudes/moment_magnitude_store.py).  The cache directory  *)
(* is the modification time of each of its files; glob returns the files   *)
(* in an order of its own.                                                 *)
(***************************************************************************)
MaxFiles == 3

MaxMtime == 3

KeepFiles == 0..3

\* the orders in which files can be listed
Listings(files) ==
    { l \in [1..Cardinality(files) -> files] :
        \A i, j \in DOMAIN l : i # j => l[i] # l[j] }

\* sorted(listing, key=lambda f: f.stat().st_mtime): ascending, and files
\* of one modification time stay in the order of the listing
SortedByMtime(listing, st_mtime) ==
    { l \in Listings({ listing[i] : i \in DOMAIN listing }) :
        \A i, j \in DOMAIN l : i < j =>
            \/ st_mtime[l[i]] < st_mtime[l[j]]
            \/ /\ st_mtime[l[i]] = st_mtime[l[j]]
               /\ \E a, b \in DOMAIN listing :
                     a < b /\ listing[a] = l[i] /\ listing[b] = l[j] }

\* files[keep_files:]
SliceFrom(l, keep_files) ==
    { l[i] : i \in { j \in DOMAIN l : j > keep_files } }

PeakCacheInit ==
    \E n \in 0..MaxFiles, keep_files \in KeepFiles :
        \E st_mtime \in [1..n -> 1..MaxMtime] :
            peakcache = [ st_mtime |-> st_mtime, keep_files |-> keep_files,
                          files |-> 1..n, cleaned |-> FALSE ]

PeakCacheIdle ==
    peakcache = [ st_mtime |-> <<>>, keep_files |-> 0, files |-> {},
                  cleaned |-> TRUE ]

\* clean_cache(keep_files)
CleanCache ==
    /\ ~peakcache.cleaned
    /\ \E listing \in Listings(peakcache.files) :
          \E files \in SortedByMtime(listing, peakcache.st_mtime) :
             peakcache' = [peakcache EXCEPT
                 !.cleaned = TRUE,
                 !.files = IF Len(files) <= peakcache.keep_files
                           THEN peakcache.files
                           ELSE peakcache.files
                                   \ SliceFrom(files, peakcache.keep_files)]
    /\ UNCHANGED notPeakCache

(***************************************************************************)
(* Search.start (src/qseek/search.py) over iter_batches and the prefetch   *)
(* worker (lassie/waveforms/squirrel.py), as the tasks of one event loop.  *)
(* The generator iter_batches runs only while start awaits its next batch. *)
(* i_batch counts the batches the loop of start has received.              *)
(***************************************************************************)
otherSearchVars ==
    <<conf, run, rundir, progress, progress_file, shift_range,
      window_padding, start_time, batch, detections, i_detection, store,
      emitted, n_traces, exports, completed, searched, stopped_at,
      resumed_from>>

\* start up to its loop; iter_batches makes the prefetcher and its task
StreamStart ==
    /\ spc = "created"
    /\ spc' = "next_batch"
    /\ UNCHANGED <<i_batch, otherSearchVars>>
    /\ UNCHANGED <<octreeVars, prefetchVars, laterVars>>

\* the task of prefetch_worker, from one await to the next
StreamWorker ==
    /\ spc # "created"
    /\ WorkerNext \/ WorkerFilter \/ WorkerPut \/ WorkerPutNone
    /\ UNCHANGED <<octreeVars, searchVars, laterVars>>

\* async for ... in iter_batches: the generator runs to its next queue.get
StreamGet ==
    /\ spc = "next_batch"
    /\ ConsumerGet
    /\ UNCHANGED <<octreeVars, searchVars, laterVars>>

\* the generator yields a batch to the loop of start
StreamYield ==
    /\ spc = "next_batch"
    /\ consumer = "yielded"
    /\ spc' = "search"
    /\ i_batch' = i_batch + 1
    /\ UNCHANGED otherSearchVars
    /\ UNCHANGED <<octreeVars, prefetchVars, laterVars>>

\* the body of the loop of start, then the generator is resumed
StreamBody ==
    /\ spc = "search"
    /\ spc' = "next_batch"
    /\ ConsumerResume
    /\ UNCHANGED <<i_batch, otherSearchVars>>
    /\ UNCHANGED <<octreeVars, laterVars>>

\* the generator has ended: start leaves its loop
StreamEnd ==
    /\ spc = "next_batch"
    /\ consumer = "done"
    /\ spc' = "export"
    /\ UNCHANGED <<i_batch, otherSearchVars>>
    /\ UNCHANGED <<octreeVars, prefetchVars, laterVars>>

StreamLoop ==
    StreamStart \/ StreamGet \/ StreamYield \/ StreamBody \/ StreamEnd
        \/ FinalExport

StreamNext == StreamWorker \/ StreamLoop

(***************************************************************************)
(* Specifications.                                                         *)
(***************************************************************************)
DefaultOctree == cfg = [ size_initial |-> 24, size_limit |-> 12 ]

DefaultSearch ==
    conf = [ travel_times |-> << <<2, 2>> >>, blinding |-> <<0>>,
             detection_blinding |-> 1, window_length |-> 5 ]

\* The components added after the controller, not in use.
\* The parts after the tracers, not in use.
LastIdle ==
    ConfigIdle /\ ExtractIdle /\ DiskIdle /\ SamplesIdle /\ SemIdle
        /\ PeakCacheIdle /\ LutIdle /\ ExporterIdle /\ WtsIdle /\ RefineIdle

LaterIdle == FrameIdle /\ CakeInit /\ FmIdle /\ LastIdle

\* The octree, the prefetch and the controller, not in use.
EarlierIdle ==
    OctreeInit /\ DefaultOctree /\ PrefetchInit /\ SearchInit /\ DefaultSearch

InitOctree == OctreeInit /\ PrefetchInit /\ SearchInit /\ DefaultSearch /\ LaterIdle

InitPrefetch == EarlierIdle /\ LaterIdle

InitSearch == OctreeInit /\ DefaultOctree /\ PrefetchInit /\ SearchInit /\ LaterIdle

InitFrame ==
    OctreeInit /\ PrefetchInit /\ SearchInit /\ DefaultSearch /\ FrameInit
        /\ CakeInit /\ FmIdle /\ LastIdle

InitSuited == EarlierIdle /\ FrameIdle /\ SuitedInit /\ FmIdle /\ LastIdle

InitTracers == EarlierIdle /\ LaterIdle

InitStations == EarlierIdle /\ FrameIdle /\ CakeInit /\ FmInit /\ LastIdle

TracersIdle == FrameIdle /\ CakeInit /\ FmIdle

InitConfig ==
    EarlierIdle /\ TracersIdle /\ ConfigInit /\ ExtractIdle /\ DiskIdle
        /\ SamplesIdle /\ SemIdle
        /\ PeakCacheIdle /\ LutIdle /\ ExporterIdle /\ WtsIdle /\ RefineIdle

InitExtract ==
    EarlierIdle /\ TracersIdle /\ ConfigIdle /\ ExtractInit /\ DiskIdle
        /\ SamplesIdle /\ SemIdle
        /\ PeakCacheIdle /\ LutIdle /\ ExporterIdle /\ WtsIdle /\ RefineIdle

InitDisk ==
    EarlierIdle /\ TracersIdle /\ ConfigIdle /\ ExtractIdle /\ DiskInit
        /\ SamplesIdle /\ SemIdle
        /\ PeakCacheIdle /\ LutIdle /\ ExporterIdle /\ WtsIdle /\ RefineIdle

InitSamples ==
    EarlierIdle /\ TracersIdle /\ ConfigIdle /\ ExtractIdle /\ DiskIdle
        /\ SamplesInit /\ SemIdle
        /\ PeakCacheIdle /\ LutIdle /\ ExporterIdle /\ WtsIdle /\ RefineIdle

InitRefine ==
    /\ OctreeInit /\ 2 * cfg.size_limit >= cfg.size_initial
    /\ PrefetchInit /\ SearchInit /\ DefaultSearch /\ TracersIdle
    /\ ConfigIdle /\ ExtractIdle /\ DiskIdle /\ SamplesIdle /\ SemIdle
        /\ PeakCacheIdle /\ LutIdle /\ ExporterIdle /\ WtsIdle
    /\ RefineInit

InitWts ==
    EarlierIdle /\ TracersIdle /\ ConfigIdle /\ ExtractIdle /\ DiskIdle
        /\ SamplesIdle /\ SemIdle
        /\ PeakCacheIdle /\ LutIdle /\ ExporterIdle /\ RefineIdle /\ WtsInit

InitExporter ==
    EarlierIdle /\ TracersIdle /\ ConfigIdle /\ ExtractIdle /\ DiskIdle
        /\ SamplesIdle /\ SemIdle
        /\ PeakCacheIdle /\ LutIdle /\ RefineIdle /\ WtsIdle /\ ExporterInit

InitLut ==
    EarlierIdle /\ TracersIdle /\ ConfigIdle /\ ExtractIdle /\ DiskIdle
        /\ SamplesIdle /\ SemIdle /\ PeakCacheIdle /\ RefineIdle /\ WtsIdle /\ ExporterIdle
        /\ LutInit

InitPeakCache ==
    EarlierIdle /\ TracersIdle /\ ConfigIdle /\ ExtractIdle /\ DiskIdle
        /\ SamplesIdle /\ SemIdle /\ RefineIdle /\ WtsIdle /\ ExporterIdle
        /\ LutIdle /\ PeakCacheInit

InitStream == EarlierIdle /\ LaterIdle

InitSem ==
    EarlierIdle /\ TracersIdle /\ ConfigIdle /\ ExtractIdle /\ DiskIdle
        /\ SamplesIdle /\ SemInit
        /\ PeakCacheIdle /\ LutIdle /\ ExporterIdle /\ WtsIdle /\ RefineIdle

InitUncertainty ==
    OctreeInit /\ PrefetchInit /\ SearchInit /\ DefaultSearch /\ TracersIdle
        /\ LastIdle

SpecOctree == InitOctree /\ [][OctreeNext]_vars

SpecPrefetch == InitPrefetch /\ [][PrefetchNext]_vars

SpecSearch == InitSearch /\ [][SearchNext]_vars

SpecFrame == InitFrame /\ [][FrameNext]_vars

SpecSuited == InitSuited /\ [][CakeIsSuited]_vars

SpecTracers == InitTracers /\ [][CakeNext]_vars

SpecStations == InitStations /\ [][FmNext]_vars

SpecConfig == InitConfig /\ [][ConfigNext]_vars

SpecDisk == InitDisk /\ [][DiskNext]_vars

SpecUncertainty == InitUncertainty /\ [][UncertaintyNext]_vars

SpecSamples == InitSamples /\ [][SamplesSemblance]_vars

SpecSem == InitSem /\ [][SemNext]_vars

SpecWts == InitWts /\ [][WtsCalculate]_vars

SpecLut == InitLut /\ [][GetWeights]_vars /\ WF_vars(GetWeights)

SpecPeakCache == InitPeakCache /\ [][CleanCache]_vars

SpecStream ==
    InitStream /\ [][StreamNext]_vars
        /\ WF_vars(StreamWorker) /\ WF_vars(StreamLoop)

SpecExporter == InitExporter /\ [][ExporterNext]_vars

\* A call of search that can run does run.
SpecRefine == InitRefine /\ [][RefineNext]_vars /\ WF_vars(RefineNext)

\* The event loop runs every task that can take a step, and every awaited
\* extractor returns.
SpecExtract == InitExtract /\ [][ExtractNext]_vars /\ WF_vars(ExtractNext)

(***************************************************************************)
(* Claims on the octree                                                    *)
(***************************************************************************)
RECURSIVE Pow2(_)
Pow2(k) == IF k = 0 THEN 1 ELSE 2 * Pow2(k - 1)

\* size = size_initial * 2^-k for some integer k >= 0
IsHalvingOfInitial(size) == \E k \in 0..5 : size * Pow2(k) = cfg.size_initial

SomeNodeWasSplit == \E n \in DOMAIN nodes : nodes[n].children # <<>>

C5_SplitOutcome ==
    (lastOp.op = "split" /\ lastOp.node \in Range(lastOp.leaves_before)) =>
        LET n == lastOp.node
        IN  IF nodes[n].size < 2 * cfg.size_limit
            THEN /\ lastOp.raised
                 /\ nodes[n].children = <<>>
                 /\ Leaves(lastOp.tree) = lastOp.leaves_before
            ELSE /\ ~lastOp.raised
                 /\ Len(nodes[n].children) = 8
                 /\ Cardinality(Range(nodes[n].children)) = 8

\* C5 witness: a split was refused on a leaf, in an octree where another
\* split had succeeded.
C5_Witness ==
    /\ lastOp.op = "split"
    /\ lastOp.raised
    /\ lastOp.node \in Range(lastOp.leaves_before)
    /\ SomeNodeWasSplit

\* C6: after Octree.reset() the number of leaves (n_nodes and the iteration)
\* equals the number of root nodes and every leaf's semblance is 0.
C6_AfterReset ==
    lastOp.op = "reset" =>
        LET t == lastOp.tree
        IN  /\ Len(Leaves(t)) = Len(trees[t].root_nodes)
            /\ n_nodes(t) = Len(trees[t].root_nodes)
            /\ Len(trees[t].root_nodes) = Len(RootCoordinates(cfg.size_initial))
            /\ \A n \in Range(Leaves(t)) : nodes[n].semblance = 0

\* C6 witness: reset of an octree that had more leaves than root nodes and
\* leaves with semblance.
C6_Witness ==
    /\ lastOp.op = "reset"
    /\ Len(lastOp.leaves_before) > Len(trees[lastOp.tree].root_nodes)
    /\ \E n \in Range(lastOp.leaves_before) : nodes[n].semblance # 0

\* C7 as stated: whenever a node has children, they are the very objects
\* its first split created (a re-split after any number of resets reattaches
\* them).
C7_ResplitReattachesFirstChildren ==
    \A n \in DOMAIN nodes :
        nodes[n].children # <<>> => nodes[n].children = firstChildren[n]

\* C8 as stated: map_semblance(vector) sets leaf i to vector[i] when the
\* lengths agree and raises whenever they differ.
C8_MapSemblanceChecksLength ==
    lastOp.op = "map_semblance" =>
        LET lv == lastOp.leaves_before
            vec == lastOp.arg
        IN  IF Len(vec) = Len(lv)
            THEN /\ ~lastOp.raised
                 /\ \A i \in 1..Len(lv) : nodes[lv[i]].semblance = vec[i]
            ELSE lastOp.raised

(***************************************************************************)
(* Claims about the prefetcher.                                            *)
(***************************************************************************)
\* C2: whatever the interleaving of the prefetch worker and the consumer,
\* iter_batches yields the batches in the order in which the iterator
\* produced them: no batch is yielded before an earlier one and none is
\* yielded twice.
C2_DeliveredInIteratorOrder ==
    \A a, b \in DOMAIN delivered : a < b => delivered[a] < delivered[b]

\* The worker ran ahead of the consumer, batches were skipped, and the
\* consumer saw the end marker after yielding several batches.
C2_Witness ==
    /\ consumer = "done"
    /\ Len(delivered) >= 3
    /\ fetched_batches = MaxBatches
    /\ skipped.empty_batches + skipped.short_batches >= 1

(***************************************************************************)
(* Claims about the streaming controller.                                  *)
(***************************************************************************)
\* The awaits of the loop body between the delivery of a batch and
\* set_progress: the search and the processing of its detections.
MidBatch == { "search", "gather", "add", "emit" }

StoppedMidBatch ==
    spc \in MidBatch \/ (spc = "stopped" /\ stopped_at \in MidBatch)

LastCompletedEnd ==
    IF completed = {} THEN NoTime
    ELSE MaxOf({ c.window.end_time : c \in completed })

EndsWith(s, t) ==
    Len(s) >= Len(t) /\ \A j \in 1..Len(t) : s[Len(s) - Len(t) + j] = t[j]

\* C1: the persisted progress is a batch's end time only after the
\* detections of that batch went through new_detections (they are added to
\* the store and emitted); a start that is cancelled or fails during the
\* search or the detection processing of a batch leaves the persisted
\* progress at the end of the batch completed before it.
C1_ProgressAfterDetections ==
    /\ (batch # NoBatch /\ progress_file = batch.end_time) =>
            EndsWith(store, detections) /\ EndsWith(emitted, detections)
    /\ StoppedMidBatch =>
            progress_file = LastCompletedEnd /\ progress_file < batch.end_time

\* A start stopped while it adds the second detection of a batch, after
\* an earlier batch was completed.
C1_Witness ==
    /\ spc = "stopped"
    /\ stopped_at = "add"
    /\ i_detection = 2
    /\ progress_file # NoTime
    /\ progress_file = batch.start_time

Before(x, y) ==
    \/ x.uid[1] < y.uid[1]
    \/ x.uid[1] = y.uid[1] /\ x.uid[2] < y.uid[2]
    \/ x.uid[1] = y.uid[1] /\ x.uid[2] = y.uid[2] /\ x.uid[3] < y.uid[3]
         /\ x.time < y.time

Prepared ==
    \/ spc \in { "refused", "next_batch", "export", "finished" }
    \/ StoppedMidBatch
    \/ spc = "stopped" /\ stopped_at \in { "next_batch", "export" }

\* C9: init_boundaries sets window_padding to shift_range +
\* detection_blinding + the blinding of the image functions, where
\* shift_range is the largest minus the smallest travel time over all
\* phases; it raises when window_length < 2 * window_padding + shift_range,
\* and then start processes no batch.
C9_PaddingAndRefusal ==
    Prepared =>
        LET tt == conf.travel_times
            longest == MaxOf({ tt[ph][2] : ph \in DOMAIN tt })
            shortest == MinOf({ tt[ph][1] : ph \in DOMAIN tt })
        IN  /\ shift_range = longest - shortest
            /\ window_padding = shift_range + conf.detection_blinding
                                    + MaxOf(Range(conf.blinding))
            /\ spc = "refused"
                 <=> conf.window_length < 2 * window_padding + shift_range
            /\ spc = "refused" =>
                 searched = <<>> /\ n_traces = 0 /\ progress_file = NoTime

\* A window that holds twice the padding but not the shift range as well
\* is refused.
C9_Witness ==
    /\ spc = "refused"
    /\ shift_range > 0
    /\ conf.window_length >= 2 * window_padding

\* C10: a run resumed with load_rundir and start begins its batch
\* iteration at the persisted time_progress; no window completed before the
\* stop is searched again, and the persisted time_progress never falls
\* below the one the run resumed from.
C10_ResumeFromProgress ==
    (run > 1 /\ resumed_from # NoTime) =>
        /\ start_time # NoTime => start_time = resumed_from
        /\ \A w \in Range(searched) :
                /\ w.start_time >= resumed_from
                /\ (w.start_time - resumed_from) % conf.window_length = 0
        /\ \A w \in Range(searched) : \A c \in completed :
                c.run < run => w.start_time >= c.window.end_time
        /\ progress_file >= resumed_from

\* A resumed run that completed a window after the one it resumed from.
C10_Witness ==
    /\ run > 1
    /\ resumed_from # NoTime
    /\ searched # <<>>
    /\ progress_file > resumed_from

(***************************************************************************)
(* Claims about the frame engine.                                          *)
(***************************************************************************)
\* C11: searching a window never changes the octree template of the parent
\* Search: the splits of a frame are made on a private copy, so the leaves
\* of the template are its root nodes after any number of frames and
\* refinements, and a frame starts on an octree without the splits of the
\* frame before it.
C11_TemplateUntouched ==
    /\ Leaves(Template) = trees[Template].root_nodes
    /\ (frame.at = "search" /\ lastOp.op \in { "reset", "deepcopy" }) =>
            Leaves(frame.octree) = trees[frame.octree].root_nodes

(***************************************************************************)
(* Claims about the travel-time tables.                                    *)
(***************************************************************************)
Within(requested, stored) ==
    \A x \in requested[1]..requested[2] : stored[1] <= x /\ x <= stored[2]

\* The reuse condition in the words of the specification.
ReuseCondition(tree, timing, args) ==
    /\ tree.earthmodel = args.earthmodel
    /\ tree.timing = timing
    /\ Within(args.distance_bounds, tree.distance_bounds)
    /\ Within(args.source_depth_bounds, tree.source_depth_bounds)
    /\ Within(args.receiver_depth_bounds, tree.receiver_depth_bounds)
    /\ ~(tree.time_tolerance > args.time_tolerance)
    /\ ~(tree.spatial_tolerance > args.spatial_tolerance)

\* C12: is_suited is true exactly when the stored earth model and timing
\* equal the requested ones, each requested interval of distance, source
\* depth and receiver depth lies within the stored one, and the stored
\* time and spatial tolerances are at most the requested ones.
C12_IsSuitedIffReuseCondition ==
    cake.answer.call = "is_suited" =>
        (cake.answer.suited <=>
            ReuseCondition(cake.answer.tree, cake.answer.timing, cake.answer.args))

\* is_suited has answered yes for a tree that is wider and finer than the
\* request
C12_Witness ==
    /\ cake.answer.call = "is_suited"
    /\ cake.answer.suited
    /\ cake.answer.tree.distance_bounds # cake.answer.args.distance_bounds
    /\ cake.answer.tree.time_tolerance < cake.answer.args.time_tolerance

\* is_suited has answered no for a tree that differs from a suited one in
\* nothing but a coarser time tolerance
C12_RefusedForTolerance ==
    /\ cake.answer.call = "is_suited"
    /\ ~cake.answer.suited
    /\ cake.answer.tree.time_tolerance > cake.answer.args.time_tolerance
    /\ ReuseCondition([cake.answer.tree EXCEPT !.time_tolerance =
                           cake.answer.args.time_tolerance],
                      cake.answer.timing, cake.answer.args)

\* the tree get_traveltimes and get_arrivals ask
QueriedTree == cake.traveltime_trees["cake:P"].tree

C13_CakeTreesSuitedOrNew ==
    cake.prepared =>
        \A phase_descr \in DOMAIN timings :
            LET e == cake.traveltime_trees[phase_descr]
            IN  \/ /\ e.origin = "cached"
                   /\ e.tree \in cake.cached_trees
                   /\ ReuseCondition(e.tree, timings[phase_descr], cake.args)
                \/ /\ e.origin = "new"
                   /\ e.tree = NewTree(timings[phase_descr], cake.args)
                   /\ e.tree \in cake.cache_dir

C13_CakeWitness ==
    /\ cake.prepared
    /\ cake.traveltime_trees["cake:P"].origin = "cached"
    /\ cake.traveltime_trees["cake:P"].tree.distance_bounds
           # cake.args.distance_bounds
    /\ \E tree \in cake.cached_trees :
          tree.timing = "P,p" /\ ~ReuseCondition(tree, "P,p", cake.args)

\* The reuse condition in the words of the specification, for the volume
\* of a station: the model hash matches, the volume is that of the station
\* and its box encloses the requested one.
VolumeSuited(volume, model, station) ==
    /\ volume.velocity_model_hash = VelocityModelHash(model)
    /\ volume.station = station
    /\ Within(model.east_bounds, volume.east_bounds)
    /\ Within(model.north_bounds, volume.north_bounds)
    /\ Within(model.depth_bounds, volume.depth_bounds)

\* C13: after prepare every travel-time table the tracer will query (one
\* for each phase of the 1-D tracer, one for each station of the 3-D
\* tracer) was found on disk and satisfies the reuse condition, or was
\* computed for the request and persisted; an unsuited cached table is
\* never used.
C13_TablesSuitedOrNew ==
    /\ C13_CakeTreesSuitedOrNew
    /\ fm.prepared = "ok" =>
          \A sta \in Range(Iter(fm.stations, fm.blacklist)) :
              \E e \in fm.traveltime_models :
                  /\ e.key = PyStr(sta.nsl)
                  /\ e.volume \in fm.cache
                  /\ \/ e.origin = "cached" /\ VolumeSuited(e.volume, fm.model, sta)
                     \/ e.origin = "new" /\ e.volume = Volume(fm.model, sta)

\* The arrivals of the specification: one for each receiver, in order.
ArrivalsAsSpecified(answer, TravelTime(_)) ==
    /\ Len(answer.arrivals) = Len(answer.receivers)
    /\ \A i \in DOMAIN answer.receivers :
          IF TravelTime(answer.receivers[i]) = NaN
          THEN answer.arrivals[i] = NoArrival
          ELSE /\ answer.arrivals[i] # NoArrival
               /\ answer.arrivals[i].time
                      = answer.event_time + TravelTime(answer.receivers[i])

CakeTravelTime(c) == astype_float(astype_float32(interpolate_many(QueriedTree, c)))

\* C15 for the 1-D tracer.
C15_CakeArrivals ==
    cake.answer.call = "get_arrivals" =>
        ArrivalsAsSpecified(cake.answer, CakeTravelTime)

C15_CakeWitness ==
    /\ cake.answer.call = "get_arrivals"
    /\ Len(cake.answer.arrivals) = 2
    /\ cake.answer.arrivals[1] # NoArrival
    /\ cake.answer.arrivals[2] = NoArrival
    /\ cake.answer.event_time > 0

FmTravelTime(receiver) ==
    interpolate_travel_time(Volume(fm.model, receiver), fm.answer.source)

\* C15: get_arrivals of the 1-D and of the 3-D tracer returns one entry
\* for each receiver, in the order of the receivers: none where the travel
\* time is NaN, else the event time plus the travel time; it does not fail
\* for the receivers the tracer was prepared for.
C15_ArrivalsForPreparedReceivers ==
    /\ C15_CakeArrivals
    /\ fm.answer.call = "get_arrivals" =>
          /\ fm.answer.raised = ""
          /\ ArrivalsAsSpecified(fm.answer, FmTravelTime)

\* C17: after the construction of Stations no two kept stations have the
\* same NSL and none has a zero latitude or longitude; from then on, also
\* after blacklist_station, the iteration and n_stations cover exactly
\* the kept stations that are not on the blacklist.
C17_KeptStations ==
    fm.at = "constructed" =>
        /\ \A i, j \in DOMAIN fm.stations :
              i # j => fm.stations[i].nsl # fm.stations[j].nsl
        /\ \A i \in DOMAIN fm.stations :
              fm.stations[i].lat # 0 /\ fm.stations[i].lon # 0
        /\ Range(Iter(fm.stations, fm.blacklist))
              = { sta \in Range(fm.stations) : sta.nsl \notin fm.blacklist }
        /\ n_stations(fm.stations, fm.blacklist)
              = Cardinality({ sta \in Range(fm.stations) :
                                sta.nsl \notin fm.blacklist })

\* the construction has removed stations and kept two, and
\* blacklist_station has taken one of them off the iteration
C17_Witness ==
    /\ fm.at = "constructed"
    /\ fm.weeded
    /\ fm.prepared = "no"
    /\ Len(fm.stations) = 2
    /\ "XX.A." \in fm.blacklist
    /\ n_stations(fm.stations, fm.blacklist) = 1

\* The offset of a station lies outside the box of the model.
OffsetOutsideBox(model, sta) ==
    LET box == << model.east_bounds, model.north_bounds, model.depth_bounds >>
    IN  \E axis \in 1..3 :
            sta.offset[axis] < box[axis][1] \/ sta.offset[axis] > box[axis][2]

\* C18: after prepare of the 3-D phase tracer every station whose offset
\* from the centre of the velocity model is outside the box of the model
\* is on the blacklist and no volume was computed for it; when the
\* blacklisting of prepare leaves no station, prepare fails.
C18_OutsideStationsBlacklisted ==
    /\ fm.prepared = "ok" =>
          \A sta \in Range(fm.stations) :
              OffsetOutsideBox(fm.model, sta) =>
                  sta.nsl \in fm.blacklist /\ sta.nsl \notin fm.computed
    /\ (fm.prepared # "no" /\ fm.outside # {}
           /\ n_stations(fm.stations, fm.blacklist) = 0) =>
          fm.prepared = "ValueError"

\* prepare has blacklisted one station for its depth and computed the
\* volume of the other
C18_Witness ==
    /\ fm.prepared = "ok"
    /\ fm.outside = { "XX.B." }
    /\ fm.computed = { "XX.A." }
    /\ \E sta \in Range(fm.stations) :
          /\ sta.nsl = "XX.B."
          /\ sta.offset[3] < fm.model.depth_bounds[1]
          /\ OffsetOutsideBox(fm.model, sta)

\* prepare has blacklisted the last station and failed
C18_FailedWithoutStations ==
    /\ fm.prepared = "ValueError"
    /\ fm.outside # {}
    /\ n_stations(fm.stations, fm.blacklist) = 0

(***************************************************************************)
(* Claims about the configuration.                                         *)
(***************************************************************************)
\* some phase id is in the list more than once
SuppliedTwice(phases) ==
    \E i, j \in DOMAIN phases : i # j /\ phases[i] = phases[j]

\* C16 for the image functions.
C16_ImagePhaseTwiceRejected ==
    SuppliedTwice(get_phases(config.image_functions)) =>
        config.at \in { "file", "ValueError" }

C16_ImageWitness ==
    /\ SuppliedTwice(get_phases(config.image_functions))
    /\ ~SuppliedTwice(config.image_functions[1])
    /\ config.at = "ValueError"

\* C16: a configuration that supplies a phase id twice, by two image
\* functions or by two ray tracers, is rejected when it is loaded, before
\* any prepare or search step runs.
C16_PhaseTwiceRejectedAtLoad ==
    (\/ SuppliedTwice(get_phases(config.image_functions))
     \/ SuppliedTwice(Chain(config.ray_tracers, 1))) =>
        config.at \in { "file", "ValueError" }

(***************************************************************************)
(* Claims about the extractors.                                            *)
(***************************************************************************)
\* no more than 8 tasks are inside the semaphore
AtMostEightExtract == Cardinality(Extracting(extract)) <= 8

\* a detection out of bounds has run no extractor
OutOfBoundsRunNone ==
    \A d \in DOMAIN extract.detections :
        ~extract.detections[d] => extract.ran[d] = 0

\* every detection in bounds has run every extractor and returned
InBoundsRanAll ==
    \A d \in DOMAIN extract.detections :
        extract.detections[d] =>
            extract.ran[d] = Len(Extractors) /\ extract.task[d] = "returned"

C19_WaiterRanAll ==
    /\ Len(extract.detections) > 8
    /\ \A d \in DOMAIN extract.detections :
          /\ extract.task[d] = "returned"
          /\ extract.detections[d] => extract.ran[d] = Len(Extractors)
    /\ \E d \in DOMAIN extract.detections : extract.ran[d] > 0

(***************************************************************************)
(* Claims about the run directory.                                         *)
(***************************************************************************)
\* the last step was init_rundir on a path where a run directory was
CalledOnExisting(force) ==
    /\ disk.last.call = "init_rundir"
    /\ disk.last.rundir.exists
    /\ disk.last.force = force

\* C20: init_rundir on an existing run directory.  Without force it raises
\* FileExistsError and the directory, its files and the backups are as they
\* were.  With force it renames the directory to NAME.bak-<creation time>,
\* then makes a new directory and writes the config of the new search into
\* it; the old directory is among the backups as it was, and so is every
\* older backup.
C20_InitRundirOnExisting ==
    /\ CalledOnExisting(FALSE) =>
          /\ disk.last.result = "FileExistsError"
          /\ disk.last.ops = <<>>
          /\ disk.rundir = disk.last.rundir
          /\ disk.backups = disk.last.backups
    /\ CalledOnExisting(TRUE) =>
          /\ disk.last.result = "ok"
          /\ disk.last.ops = <<"rename", "mkdir", "write_config">>
          /\ [name |-> <<disk.stem, ".bak-",
                           <<"time", disk.last.rundir.ctime>> >>,
              dir |-> disk.last.rundir] \in disk.backups
          /\ disk.last.backups \subseteq disk.backups
          /\ Cardinality(disk.backups) = Cardinality(disk.last.backups) + 1
          /\ disk.rundir.exists
          /\ disk.rundir.config = disk.searches
          /\ disk.rundir.progress = 0

\* C20 for the searches made by from_config.
C20_InitRundirFromConfig == disk.stem # "" => C20_InitRundirOnExisting

\* A forced init_rundir on a run directory with a progress file, beside an
\* older backup.
C20_Witness ==
    /\ CalledOnExisting(TRUE)
    /\ disk.last.rundir.progress > 0
    /\ disk.last.backups # {}

\* An init_rundir without force on a run directory with a progress file.
C20_RaisedWithoutForce ==
    /\ CalledOnExisting(FALSE)
    /\ disk.last.rundir.progress > 0
    /\ disk.last.result = "FileExistsError"

(***************************************************************************)
(* Claims about the uncertainty of a detection.                            *)
(***************************************************************************)
\* the last step was from_event
FromEventCalled == lastOp.op = "from_event"

\* the leaves of the call whose semblance is at least the source node's
\* times 1/sqrt(e)
Vicinity ==
    { n \in Range(lastOp.leaves_before) :
        nodes[n].semblance * 100000 >= nodes[lastOp.node].semblance * 60653 }

\* the offsets of the leaves in S from the source node on an axis
OffsetsOf(S, axis) ==
    { Coords(nodes[n])[axis] - Coords(nodes[lastOp.node])[axis] : n \in S }

\* C21: from_event returns for each axis the least and the greatest of
\* (leaf coordinate - source coordinate) over exactly the leaves whose
\* semblance is >= the source node's semblance / sqrt(e); every lower
\* offset is <= 0 and every upper offset >= 0; a source node with
\* semblance 0 is rejected with an error.
C21_UncertaintyOfVicinity ==
    FromEventCalled =>
        IF nodes[lastOp.node].semblance = 0
        THEN lastOp.raised
        ELSE /\ ~lastOp.raised
             /\ \A axis \in 1..3 :
                   /\ lastOp.arg[axis][1] \in OffsetsOf(Vicinity, axis)
                   /\ lastOp.arg[axis][2] \in OffsetsOf(Vicinity, axis)
                   /\ \A o \in OffsetsOf(Vicinity, axis) :
                         lastOp.arg[axis][1] <= o /\ o <= lastOp.arg[axis][2]
                   /\ lastOp.arg[axis][1] <= 0
                   /\ lastOp.arg[axis][2] >= 0

\* An answer whose box leaves out a leaf of lower semblance and reaches a
\* leaf of another size on both sides of the source node on an axis.
C21_Witness ==
    /\ FromEventCalled
    /\ ~lastOp.raised
    /\ Vicinity # Range(lastOp.leaves_before)
    /\ \E n \in Vicinity : nodes[n].size # nodes[lastOp.node].size
    /\ \E axis \in 1..3 : lastOp.arg[axis][1] < 0 /\ lastOp.arg[axis][2] > 0

\* A source node with semblance 0 in an octree that has semblance elsewhere.
C21_Rejected ==
    /\ FromEventCalled
    /\ lastOp.raised
    /\ \E n \in Range(lastOp.leaves_before) : nodes[n].semblance > 0

(***************************************************************************)
(* Claims about the batches that are skipped.                              *)
(***************************************************************************)
\* the window the chopper hands out next
NextWindow == Window(start_time, MaxTime, conf.window_length, i_batch)

\* the step takes a batch from the chopper
BatchTaken == i_batch' = i_batch + 1

\* the step yields the batch b to the search loop
Yields(b) == spc' = "search" /\ batch' = b /\ searched' = Append(searched, b)

\* the step skips the batch: nothing is yielded, the iteration goes on
Skips == spc' = spc /\ batch' = batch /\ searched' = searched

\* C22: a batch that is empty after the cleaning of its traces, or whose
\* duration is below min_length = 2 * window_padding, is not yielded to the
\* search loop; it adds exactly one to empty_batches or to short_batches
\* and the iteration goes on with the next batch; any other batch is
\* yielded and counted in neither.
C22_SkippedBatches ==
    [][BatchTaken =>
         LET b == NextWindow
             short == b.end_time - b.start_time < 2 * window_padding
             counted_empty ==
                 skipped' = [skipped EXCEPT !.empty_batches = @ + 1]
             counted_short ==
                 skipped' = [skipped EXCEPT !.short_batches = @ + 1]
         IN  /\ short => Skips /\ (counted_empty \/ counted_short)
             /\ counted_empty => Skips
             /\ counted_short => Skips /\ short
             /\ Yields(b) \/ Skips
             /\ Yields(b) => skipped' = skipped
             /\ Skips => counted_empty \/ counted_short]_vars

\* An empty batch and a short batch were skipped, batches were searched
\* before and the end of the iteration was reached after them.
C22_Witness ==
    /\ skipped.empty_batches > 0
    /\ skipped.short_batches > 0
    /\ searched # <<>>
    /\ spc = "export"

(***************************************************************************)
(* Claims about the writing of the progress.                               *)
(***************************************************************************)
\* C23: when the writing of progress.json fails, the write is tried once
\* more; the run stops with the error only if that fails as well.
C23_WriteRetriedOnce ==
    (disk.last.call = "set_progress" /\ disk.last.result = "OSError") =>
        disk.last.ops = <<"write_text", "write_text">>

(***************************************************************************)
(* Claims about the sample counts.                                         *)
(***************************************************************************)
\* x / y is nearer to n than to any other integer, or midway between n and
\* an odd integer
Rounded(x, y, n) ==
    LET twice == 2 * x - 2 * n * y
    IN  \/ -y < twice /\ twice < y
        \/ (twice = y \/ twice = -y) /\ n % 2 = 0

\* C24: for every window, sampling rate and window_padding the unpadded
\* length n_samples - 2 * padding_samples is round((end - start) *
\* sampling_rate).
C24_UnpaddedLength ==
    samples.made =>
        Rounded((samples.window[2] - samples.window[1]) * samples.sampling_rate,
                1000, samples.semblance.unpadded)

(***************************************************************************)
(* Claims about the children of a split node.                              *)
(***************************************************************************)
\* Twice the lower and the upper face of the cube of nd on an axis.
Lower2(nd, axis) == 2 * Coords(nd)[axis] - nd.size

Upper2(nd, axis) == 2 * Coords(nd)[axis] + nd.size

\* The cubes of a and b share no volume.
Disjoint(a, b) ==
    \E axis \in 1..3 :
        Upper2(a, axis) <= Lower2(b, axis) \/ Upper2(b, axis) <= Lower2(a, axis)

\* The cube of c lies in the cube of nd.
Inside(c, nd) ==
    \A axis \in 1..3 :
        Lower2(nd, axis) <= Lower2(c, axis) /\ Upper2(c, axis) <= Upper2(nd, axis)

\* The signs (-1 or 1) of the i-th of eight children: east changes slowest.
SignOf(i, axis) ==
    LET bit == CASE axis = 1 -> (i - 1) \div 4
                 [] axis = 2 -> ((i - 1) \div 2) % 2
                 [] axis = 3 -> (i - 1) % 2
    IN  2 * bit - 1

EightOctants(n) ==
    LET nd == nodes[n]
        kids == nd.children
    IN  /\ Len(kids) = 8
        /\ \A i \in 1..8 :
             /\ 2 * nodes[kids[i]].size = nd.size
             /\ \A axis \in 1..3 :
                  4 * Coords(nodes[kids[i]])[axis] =
                      4 * Coords(nd)[axis] + SignOf(i, axis) * nd.size
             /\ Inside(nodes[kids[i]], nd)
        /\ \A i, j \in 1..8 : i # j => Disjoint(nodes[kids[i]], nodes[kids[j]])
        \* eight cubes inside the parent that share no volume and have the
        \* parent's volume together
        /\ 8 * nodes[kids[1]].size * nodes[kids[1]].size * nodes[kids[1]].size
               = nd.size * nd.size * nd.size

\* C25: a node that was split has eight children of half its size, centred
\* a quarter of its size from its centre on every axis, one per combination
\* of signs; their cubes are pairwise disjoint and fill the node's cube.
C25_EightOctants ==
    \A n \in DOMAIN nodes : nodes[n].children # <<>> => EightOctants(n)

\* The last operation split a child of a root node.
C25_Witness ==
    /\ lastOp.op = "split" /\ ~lastOp.raised
    /\ nodes[lastOp.node].children # <<>>
    /\ 2 * nodes[lastOp.node].size = cfg.size_initial

(***************************************************************************)
(* Claims about the iteration of an octree.                                *)
(***************************************************************************)
\* The nodes at and below n.
RECURSIVE Below(_)
Below(n) ==
    {n} \cup UNION { Below(nodes[n].children[i]) : i \in DOMAIN nodes[n].children }

BelowAll(s) == UNION { Below(s[i]) : i \in DOMAIN s }

\* In lv everything below s[i] comes before everything below s[j], i < j.
InOrderOf(lv, s) ==
    LET places == [ i \in DOMAIN s |->
                      LET below == Below(s[i])
                      IN  { a \in DOMAIN lv : lv[a] \in below } ]
    IN  \A i, j \in DOMAIN s : i < j =>
            \A a \in places[i], b \in places[j] : a < b

IteratesLeavesInOrder(t) ==
    LET lv == Leaves(t)
        all == BelowAll(trees[t].root_nodes)
    IN  /\ \A a, b \in DOMAIN lv : lv[a] = lv[b] => a = b
        /\ Range(lv) = { n \in all : nodes[n].children = <<>> }
        /\ InOrderOf(lv, trees[t].root_nodes)
        /\ \A n \in all : InOrderOf(lv, nodes[n].children)
        /\ \A idx \in -1..Len(lv) :
             IF idx \in 0..(Len(lv) - 1)
             THEN getitem(t, idx) = [raised |-> FALSE, node |-> lv[idx + 1]]
             ELSE getitem(t, idx).raised

\* C26: iterating an octree yields every leaf once and no interior node,
\* depth first with the children of a node in their stored order (east
\* outermost, then north, then depth), and octree[i] is the i-th node of
\* that order.
C26_IteratesLeavesInOrder ==
    \A t \in DOMAIN trees :
        /\ IteratesLeavesInOrder(t)
        /\ \A n \in BelowAll(trees[t].root_nodes) :
             \A i \in DOMAIN nodes[n].children : \A axis \in 1..3 :
                 SignOf(i, axis) * (Coords(nodes[nodes[n].children[i]])[axis]
                                      - Coords(nodes[n])[axis]) > 0

\* An octree with a split child of a split root node before a leaf root.
C26_Witness ==
    \E t \in DOMAIN trees :
        LET roots == trees[t].root_nodes
        IN  /\ Len(roots) = 2
            /\ nodes[roots[1]].children # <<>>
            /\ \E i \in 1..8 : nodes[nodes[roots[1]].children[i]].children # <<>>
            /\ nodes[roots[2]].children = <<>>
            /\ getitem(t, Len(Leaves(t)) - 1).node = roots[2]

(***************************************************************************)
(* Claims about the cached leaf count.                                     *)
(***************************************************************************)
\* C27: after any sequence of operations on an octree and its nodes the
\* cached n_nodes, when there is one, is the number of leaves the
\* iteration yields.
C27_CachedCountIsLeafCount ==
    \A t \in DOMAIN trees :
        trees[t].n_nodes # NoCache => trees[t].n_nodes = Len(Leaves(t))

(***************************************************************************)
(* Claims about the read-ahead of the prefetcher.                          *)
(***************************************************************************)
\* Batches the consumer took from the queue.
Taken == Len(delivered) + skipped.empty_batches + skipped.short_batches

\* Batches fetched from the iterator that the consumer did not take yet.
ReadAhead == iterator - Taken

\* C28 as stated: the batches fetched from the waveform iterator and not
\* yet taken by the consumer never exceed queue_size.
C28_ReadAheadWithinQueueSize == ReadAhead <= queue_size

\* C28, amended: the queue never holds more than queue_size items, and the
\* batches fetched and not yet taken never exceed queue_size + 1: the one
\* above queue_size is the batch the worker fetched and holds while the
\* queue is full.
C28_ReadAheadWithinQueueSizeAndOne ==
    /\ Len(queue) <= queue_size
    /\ ReadAhead <= queue_size + 1
    /\ ReadAhead = queue_size + 1 =>
          /\ QueueFull
          /\ held # None
          /\ worker \in { "filter", "put" }

\* The worker waits at its put with a full queue of batches.
C28_Witness ==
    /\ worker = "put"
    /\ Len(queue) = queue_size
    /\ ReadAhead = queue_size + 1

(***************************************************************************)
(* Claims about the semblance cache.                                       *)
(***************************************************************************)
\* The places of the leaves whose key is in the cache of the call.
CachedLeaves ==
    { i \in DOMAIN sem.call.leaves :
        sem.call.leaves[i] \in Keys(OrEmpty(sem.call.semblance_cache)) }

\* C29: the top-level call of search of a frame starts without a cache, a
\* recursive call gets the snapshot taken at the refinement level before it
\* in the same frame and nothing else, and no row that was stacked in one
\* window is read in another.
C29_CachePrivateToFrame ==
    LET c == sem.call
    IN  c.at # "idle" =>
            /\ c.window = sem.n_frames + 1
            /\ c.level = 0 => c.semblance_cache.none
            /\ c.level > 0 =>
                  /\ ~c.semblance_cache.none
                  /\ c.semblance_cache.rows = c.snapshot
            /\ \A r \in OrEmpty(c.semblance_cache) :
                  r.window = c.window /\ r.level < c.level
            /\ \A i \in DOMAIN c.semblance : c.semblance[i].window = c.window

\* The second refinement of the second window reads rows of the levels
\* before it.
C29_Witness ==
    /\ sem.call.at = "peaks"
    /\ sem.n_frames = 1
    /\ sem.call.level = 2
    /\ \E i, j \in CachedLeaves :
          sem.call.semblance[i].level = 0 /\ sem.call.semblance[j].level = 1

\* C30: in a call of search with a cache that is not empty every leaf
\* whose key is in the cache has the weight 0 for every station in the
\* stacking of every image, and at the peak finding its row is the cached
\* row, written back after the normalisation.
C30_CachedRowsAtPeakFinding ==
    LET c == sem.call
    IN  Truthy(c.semblance_cache) =>
          \A i \in CachedLeaves :
              /\ \A image \in DOMAIN c.weights :
                    \A st \in DOMAIN c.weights[image][i] :
                        c.weights[image][i][st] = 0
              /\ c.at = "peaks" =>
                    \E r \in c.semblance_cache.rows :
                        /\ r.key = c.leaves[i]
                        /\ r.value = c.semblance[i].value
                        /\ r.level = c.semblance[i].level

\* The peaks are searched on cached rows and on rows of new children.
C30_Witness ==
    /\ sem.call.at = "peaks"
    /\ Truthy(sem.call.semblance_cache)
    /\ CachedLeaves # {}
    /\ CachedLeaves # DOMAIN sem.call.leaves
    /\ \A i \in DOMAIN sem.call.leaves : sem.call.semblance[i].value > 0

(***************************************************************************)
(* Claims about the refinement of a frame.                                 *)
(***************************************************************************)
\* The leaves before the call whose value in the slice is at or above the
\* peak value times node_split_threshold.
AboveThreshold(slice) ==
    { refine.leaves_before[i] : i \in
        { j \in DOMAIN slice :
            slice[j] * 10 >= MaxOf(Range(slice)) * refine.threshold } }

\* The leaf of the peak: the first with the peak value.
SourceOf(slice) ==
    refine.leaves_before[
        CHOOSE i \in DOMAIN slice :
            /\ slice[i] = MaxOf(Range(slice))
            /\ \A j \in 1..(i - 1) : slice[j] # slice[i] ]

AtSizeLimit(n) == nodes[n].size < 2 * cfg.size_limit

\* Of the nodes S the ones at size_limit were left as they are and all
\* others were split.
SplitButAtLimit(S) ==
    \A n \in S : (nodes[n].children = <<>>) <=> AtSizeLimit(n)

\* The leaves before the call that the call has split.
SplitLeavesOfCall == { n \in Range(refine.leaves_before) : nodes[n].children # <<>> }

\* C31 as stated: in a frame with a peak the leaves that search attempts to
\* split are the union, over all peaks, of the leaves at or above the peak
\* value times node_split_threshold; those at size_limit are skipped and
\* all others are split.
C31_RefinesUnionOfAllPeaks ==
    refine.peaks # <<>> =>
        SplitLeavesOfCall =
            { n \in UNION { AboveThreshold(refine.peaks[p]) :
                              p \in DOMAIN refine.peaks } : ~AtSizeLimit(n) }

\* C31, amended: the union is over the peaks whose source node can be
\* split; a peak whose source node is at size_limit adds no leaf.
C31_RefinesUnionOfSplittablePeaks ==
    refine.peaks # <<>> =>
        /\ refine.attempted =
              UNION { AboveThreshold(refine.peaks[p]) :
                        p \in { q \in DOMAIN refine.peaks :
                                  ~AtSizeLimit(SourceOf(refine.peaks[q])) } }
        /\ SplitButAtLimit(refine.attempted)
        /\ SplitLeavesOfCall \subseteq refine.attempted

\* Of two peaks one has a source node at size_limit and leaves above its
\* threshold that search did not attempt to split, the other made search
\* split a node and skip none or some.
C31_Witness ==
    /\ refine.recursed
    /\ Len(refine.peaks) = 2
    /\ \E p \in DOMAIN refine.peaks :
          /\ AtSizeLimit(SourceOf(refine.peaks[p]))
          /\ ~(AboveThreshold(refine.peaks[p]) \subseteq refine.attempted)
    /\ \E n \in refine.attempted : nodes[n].children # <<>>

\* The octree has more leaves than before the call that recursed.
LeavesGrew == refine.recursed => Len(Leaves(Template)) > Len(refine.leaves_before)

\* search has returned, and no source node of its peaks could be split.
ReturnedAtLimit ==
    /\ refine.at = "returned"
    /\ refine.detections = Len(refine.peaks)
    /\ \A p \in DOMAIN refine.peaks : AtSizeLimit(SourceOf(refine.peaks[p]))

\* C33: search terminates: a call that recurses has split a leaf, so the
\* number of leaves grows with every level, and when no source node of a
\* peak can be split search makes its detections and returns.
C33_SearchTerminates ==
    /\ [](LeavesGrew /\ (refine.at = "returned" => ReturnedAtLimit))
    /\ <>ReturnedAtLimit

\* search made detections after it has refined the octree twice.
C33_Witness ==
    /\ ReturnedAtLimit
    /\ refine.level = 2
    /\ refine.detections > 0

(***************************************************************************)
(* Claims about the weights of an image.                                   *)
(***************************************************************************)
\* The stations with a travel time to node i.
ValidStations(i) == { st \in ImageStations : wts.traveltimes[i][st] # NaN }

\* A station without a travel time has weight 0 and shift 0, every other
\* station has the image weight divided by the number of valid stations.
SharedWeights(i) ==
    \A st \in ImageStations :
        LET w == wts.weights[i][st]
        IN  IF st \in ValidStations(i)
            THEN /\ w.den # 0
                 /\ w.num * Cardinality(ValidStations(i)) = wts.image_weight * w.den
            ELSE w.num = 0 /\ w.den # 0 /\ wts.shifts[i][st] = 0

NoWeights(i) == \A st \in ImageStations : wts.weights[i][st].num = 0

\* Node i is in the cache of the call.
InCache(i) ==
    /\ ~wts.semblance_cache.none
    /\ \E r \in wts.semblance_cache.rows : r.key = RootKeys[i]

\* C32 as stated: calculate_semblance gives every pair of a node and a
\* station with a NaN travel time the weight 0 and the shift 0 and every
\* other pair the image weight divided by the number of stations with a
\* travel time at that node.
C32_WeightsOfValidStations ==
    wts.made => \A i \in DOMAIN RootKeys : SharedWeights(i)

\* C32, amended: this holds for the nodes that are not in the semblance
\* cache of the call; a node in the cache has weight 0 for every station.
C32_WeightsOfValidStationsUncached ==
    wts.made =>
        \A i \in DOMAIN RootKeys :
            IF InCache(i)
            THEN NoWeights(i) /\ \A st \in ImageStations \ ValidStations(i) :
                                     wts.shifts[i][st] = 0
            ELSE SharedWeights(i)

\* One node has one of three stations without a travel time and the other
\* node none with one; the shift of a travel time of one and a half
\* samples was rounded.
C32_Witness ==
    /\ wts.made
    /\ \E i, j \in DOMAIN RootKeys :
          /\ ~InCache(i) /\ ~InCache(j)
          /\ Cardinality(ValidStations(i)) = 2
          /\ ValidStations(j) = {}
          /\ NoWeights(j)
          /\ \E st \in ValidStations(i) :
                wts.traveltimes[i][st] = 3 /\ wts.shifts[i][st] = -2

(***************************************************************************)
(* Claims about the export of new detections.                              *)
(***************************************************************************)
\* The last new_detections took the store to or past a multiple of a
\* hundred.
ReachedHundred ==
    exporter.last.before \div 100 < exporter.n_detections \div 100

\* C37: when a call of new_detections raises the number of stored
\* detections to or past a multiple of 100, the detections are exported
\* before it returns.
C37_ExportedAtEveryHundred == ReachedHundred => exporter.last.exported

(***************************************************************************)
(* Claims about the station weights.                                       *)
(***************************************************************************)
\* The call of get_weights has returned a row for every leaf.
ReturnedWeights == lut.at = "returned" /\ lut.rows = 1..lut.n_nodes

\* C35: get_weights terminates and returns a weight for every leaf, for
\* any octree size and any size of the cache, a cache smaller than the
\* octree included.
C35_GetWeightsReturns == <>ReturnedWeights

(***************************************************************************)
(* Claims about the cache of peak amplitudes.                              *)
(***************************************************************************)
FilesBefore == DOMAIN peakcache.st_mtime

Deleted == FilesBefore \ peakcache.files

\* No deleted file was modified later than a file that was kept.
DeletedOnlyOlder ==
    \A d \in Deleted, f \in peakcache.files :
        peakcache.st_mtime[d] <= peakcache.st_mtime[f]

\* C38: clean_cache(keep_files) keeps the keep_files most recently
\* modified files and deletes only older ones; a directory of at most
\* keep_files files loses nothing.
C38_KeepsMostRecentFiles ==
    peakcache.cleaned =>
        IF Cardinality(FilesBefore) <= peakcache.keep_files
        THEN Deleted = {}
        ELSE /\ Cardinality(peakcache.files) = peakcache.keep_files
             /\ DeletedOnlyOlder

(***************************************************************************)
(* Claims about the owning tree of the nodes of a copy.                    *)
(***************************************************************************)
\* Every node octree t reaches from its root nodes through children
\* references t as its tree.
OwnsItsNodes(t) ==
    \A n \in Range(TreePreorder(nodes, trees[t].root_nodes)) :
        nodes[n].tree = t

\* C36: after Octree.copy, shallow or deep, and after finest_tree, the
\* nodes reachable from the original octree reference the original and
\* the nodes reachable from the returned octree reference the returned
\* one.
C36_CopyOwnsItsNodes ==
    lastOp.op \in {"copy", "deepcopy", "finest_tree"} =>
        OwnsItsNodes(lastOp.tree) /\ OwnsItsNodes(lastOp.node)

(***************************************************************************)
(* Claims about the end of the stream of batches.                          *)
(***************************************************************************)
\* the end markers the worker has put so far
MarkersPut ==
    Cardinality({ i \in DOMAIN queue : queue[i] = None })
        + (IF consumer = "done" THEN 1 ELSE 0)

\* iter_batches has ended and every fetched batch was skipped or yielded,
\* in the order of the iterator
YieldedAllFetched ==
    /\ consumer = "done"
    /\ queue = <<>>
    /\ fetched_batches = MaxBatches
    /\ Len(delivered) + skipped.empty_batches + skipped.short_batches
          = fetched_batches
    /\ \A i, j \in DOMAIN delivered : i < j => delivered[i] < delivered[j]

\* The worker has finished after one end marker, iter_batches has ended,
\* and start has searched every yielded batch, exported and returned.
StreamEnded ==
    /\ worker = "done"
    /\ MarkersPut = 1
    /\ YieldedAllFetched
    /\ i_batch = Len(delivered)
    /\ spc = "finished"
    /\ exports = 1

\* C34: under fair scheduling, once the iterator is exhausted the worker
\* puts exactly one end marker and finishes, iter_batches ends after it
\* has yielded every batch fetched before the marker that it did not skip,
\* and Search.start leaves its loop, exports the detections and returns.
C34_StreamEnds == [](MarkersPut <= 1) /\ <>[]StreamEnded

C34_Witness ==
    /\ StreamEnded
    /\ Len(delivered) >= 2
    /\ skipped.empty_batches >= 1
    /\ skipped.short_batches >= 1

=============================================================================
